---- MODULE Spec2Model ----
(***************************************************************************)
(* The invoice reconciliation and fraud-risk assessment of                 *)
(* backend/app/main.py (get_bill_result) with the GSTIN validator of       *)
(* backend/app/validation.py (validate_gstin); the bill store of           *)
(* upload_bill; BudgetTracker, VendorAnalytics and ComplianceAutomation    *)
(* over their JSON files.                                                  *)
(*                                                                         *)
(* Python values are records tagged by t: "none" (None / JSON null),       *)
(* "absent" (a key a dict does not hold), "num" (a float, kept as the      *)
(* exact rational n/d in lowest terms), "nan" (the float NaN), "bool",     *)
(* "str" (s: the sequence of its characters), "dict" and "list".           *)
(***************************************************************************)
EXTENDS Integers, Sequences, FiniteSets, TLC

\* one get_bill_result invocation: the stored extraction result it loaded,
\* the registry's answer to its lookup, its position and its locals
VARIABLES parsed, registry, pc, line_checks, sum_of_line_totals, validations,
          gstin_validation, score, reasons, result

\* storage/parsed, the bill ids upload_bill has returned, and the locals of
\* a second get_bill_result invocation running at the same time
VARIABLES parsed_dir, bill_ids, concurrent

\* budgets.json and the add_expense calls under way
VARIABLES budgets_file, calls

\* vendor_transactions.json and vendor_performance.json
VARIABLES transactions_file, performance_file

\* compliance_rules.json, compliance_violations.json, compliance_checks.json
VARIABLES rules_file, violations_file, checks_file

\* the day datetime.now() falls on, and what the last call returned or raised
VARIABLES now, returned

assessment == <<parsed, registry, pc, line_checks, sum_of_line_totals, validations,
                gstin_validation, score, reasons, result>>

elsewhere == <<parsed_dir, bill_ids, concurrent, budgets_file, calls,
               transactions_file, performance_file, rules_file, violations_file,
               checks_file, now, returned>>

vars == <<assessment, elsewhere>>

-----------------------------------------------------------------------------
(* Python values *)

None == [t |-> "none"]

Absent == [t |-> "absent"]

NaN == [t |-> "nan"]

PyBool(b) == [t |-> "bool", b |-> b]

Str(s) == [t |-> "str", s |-> s]

AbsInt(a) == IF a < 0 THEN -a ELSE a

RECURSIVE Gcd(_, _)
Gcd(a, b) == IF b = 0 THEN a ELSE Gcd(b, a % b)

\* the float n/d (d > 0), in lowest terms
Num(n, d) ==
  LET g == Gcd(AbsInt(n), d)
  IN  [t |-> "num", n |-> n \div g, d |-> d \div g]

Zero == Num(0, 1)

IsNone(x) == x.t = "none"

IsFalse(x) == x.t = "bool" /\ x.b = FALSE

IsTrue(x) == x.t = "bool" /\ x.b = TRUE

\* dict.get(key): None for a key the dict does not hold
Get(d, key) == IF d[key].t = "absent" THEN None ELSE d[key]

\* the keys of a dict record are the fields other than its tag
Keys(d) == (DOMAIN d) \ {"t"}

\* bool(x)
Truthy(x) ==
  CASE x.t = "none" -> FALSE
    [] x.t = "bool" -> x.b
    [] x.t = "num"  -> x.n # 0
    [] x.t = "nan"  -> TRUE
    [] x.t = "str"  -> Len(x.s) > 0
    [] x.t = "date" -> TRUE
    [] x.t = "list" -> Len(x.items) > 0
    [] x.t = "dict" -> \E k \in Keys(x) : x[k].t # "absent"

\* a or b
Or(a, b) == IF Truthy(a) THEN a ELSE b

-----------------------------------------------------------------------------
(* float arithmetic: exact on rationals, NaN absorbing *)

IsNaN(a) == a.t = "nan"

FAdd(a, b) ==
  IF IsNaN(a) \/ IsNaN(b) THEN NaN ELSE Num(a.n * b.d + b.n * a.d, a.d * b.d)

FSub(a, b) ==
  IF IsNaN(a) \/ IsNaN(b) THEN NaN ELSE Num(a.n * b.d - b.n * a.d, a.d * b.d)

FMul(a, b) ==
  IF IsNaN(a) \/ IsNaN(b) THEN NaN ELSE Num(a.n * b.n, a.d * b.d)

\* a / b for b # 0
FDiv(a, b) ==
  IF IsNaN(a) \/ IsNaN(b) THEN NaN
  ELSE IF b.n < 0 THEN Num(-(a.n * b.d), a.d * (-b.n))
  ELSE Num(a.n * b.d, a.d * b.n)

FAbs(a) == IF IsNaN(a) THEN NaN ELSE Num(AbsInt(a.n), a.d)

\* comparisons with NaN are false
FLt(a, b) == ~IsNaN(a) /\ ~IsNaN(b) /\ a.n * b.d < b.n * a.d

FLe(a, b) == ~IsNaN(a) /\ ~IsNaN(b) /\ a.n * b.d <= b.n * a.d

FGt(a, b) == FLt(b, a)

FGe(a, b) == FLe(b, a)

\* min(a, b) and max(a, b) keep the first argument unless the second beats it
FMin(a, b) == IF FLt(b, a) THEN b ELSE a

FMax(a, b) == IF FGt(b, a) THEN b ELSE a

\* the integer nearest to n/d (d > 0), ties to the even one
RoundHalfEven(n, d) ==
  LET q == n \div d
      r == n % d
  IN  IF 2 * r < d THEN q
      ELSE IF 2 * r > d THEN q + 1
      ELSE IF q % 2 = 0 THEN q ELSE q + 1

\* round(x, 2) and round(x, 3); round(nan, k) is nan
Round2(x) == IF IsNaN(x) THEN NaN ELSE Num(RoundHalfEven(x.n * 100, x.d), 100)

Round3(x) == IF IsNaN(x) THEN NaN ELSE Num(RoundHalfEven(x.n * 1000, x.d), 1000)

-----------------------------------------------------------------------------
(* strings: sequences of one-character strings *)

LowerAlpha ==
  <<"a", "b", "c", "d", "e", "f", "g", "h", "i", "j", "k", "l", "m",
    "n", "o", "p", "q", "r", "s", "t", "u", "v", "w", "x", "y", "z">>

UpperAlpha ==
  <<"A", "B", "C", "D", "E", "F", "G", "H", "I", "J", "K", "L", "M",
    "N", "O", "P", "Q", "R", "S", "T", "U", "V", "W", "X", "Y", "Z">>

DigitChars == <<"0", "1", "2", "3", "4", "5", "6", "7", "8", "9">>

Range(f) == {f[i] : i \in DOMAIN f}

IsDigit(c) == c \in Range(DigitChars)

IsUpperLetter(c) == c \in Range(UpperAlpha)

DigitVal(c) == (CHOOSE i \in 1..10 : DigitChars[i] = c) - 1

CharUpper(c) ==
  IF c \in Range(LowerAlpha)
  THEN UpperAlpha[CHOOSE i \in 1..26 : LowerAlpha[i] = c]
  ELSE c

CharLower(c) ==
  IF c \in Range(UpperAlpha)
  THEN LowerAlpha[CHOOSE i \in 1..26 : UpperAlpha[i] = c]
  ELSE c

\* str.upper(), str.lower()
StrUpper(s) == [i \in 1..Len(s) |-> CharUpper(s[i])]

StrLower(s) == [i \in 1..Len(s) |-> CharLower(s[i])]

\* str.strip(): leading and trailing blanks removed
RECURSIVE LStrip(_)
LStrip(s) == IF Len(s) > 0 /\ s[1] = " " THEN LStrip(Tail(s)) ELSE s

RECURSIVE RStrip(_)
RStrip(s) ==
  IF Len(s) > 0 /\ s[Len(s)] = " " THEN RStrip(SubSeq(s, 1, Len(s) - 1)) ELSE s

Strip(s) == RStrip(LStrip(s))

\* str.replace(c, "")
RECURSIVE RemoveChar(_, _)
RemoveChar(s, c) ==
  IF Len(s) = 0 THEN <<>>
  ELSE IF s[1] = c THEN RemoveChar(Tail(s), c)
  ELSE <<s[1]>> \o RemoveChar(Tail(s), c)

RECURSIVE Pow10(_)
Pow10(k) == IF k = 0 THEN 1 ELSE 10 * Pow10(k - 1)

\* the value of a sequence of digits
RECURSIVE DigitsVal(_)
DigitsVal(s) ==
  IF Len(s) = 0 THEN 0
  ELSE 10 * DigitsVal(SubSeq(s, 1, Len(s) - 1)) + DigitVal(s[Len(s)])

\* float(s) on the literals [sign] digits [. digits] and [sign] nan, blanks
\* around them ignored; None stands for the ValueError of any other text.
\* (Exponents, underscores and inf are outside the modelled grammar.)
ParseFloat(s) ==
  LET u     == Strip(s)
      signd == Len(u) > 0 /\ u[1] \in {"-", "+"}
      neg   == Len(u) > 0 /\ u[1] = "-"
      body  == IF signd THEN Tail(u) ELSE u
      dots  == {i \in 1..Len(body) : body[i] = "."}
      digs  == RemoveChar(body, ".")
      frac  == IF dots = {} THEN 0 ELSE Len(body) - (CHOOSE i \in dots : TRUE)
      m     == DigitsVal(digs)
  IN  IF StrLower(body) = <<"n", "a", "n">> THEN NaN
      ELSE IF /\ Cardinality(dots) <= 1
              /\ Len(digs) >= 1
              /\ \A i \in 1..Len(digs) : IsDigit(digs[i])
           THEN Num(IF neg THEN -m ELSE m, Pow10(frac))
           ELSE None

-----------------------------------------------------------------------------
(* get_bill_result: numeric normalizer and line-item reconciliation *)

\* tolerance of the per-line comparison, in currency units
LineTolerance == 1

\* tolerance of the invoice-total comparison, in currency units
SumTolerance == 1

\* faulty variant: the commas are left in the text that is parsed
ToNumberKeepCommas(v) ==
  CASE v.t = "none" -> None
    [] v.t = "num"  -> v
    [] v.t = "nan"  -> v
    [] v.t = "bool" -> IF v.b THEN Num(1, 1) ELSE Zero
    [] v.t = "str"  -> ParseFloat(v.s)
    [] OTHER        -> None

\* _to_number(v)
ToNumber(v) ==
  CASE v.t = "none" -> None
    [] v.t = "num"  -> v
    [] v.t = "nan"  -> v
    [] v.t = "bool" -> IF v.b THEN Num(1, 1) ELSE Zero
    [] v.t = "str"  -> ParseFloat(RemoveChar(v.s, ","))
    [] OTHER        -> None

\* faulty variant: a tolerance that excludes a difference of exactly 1.0
LineWithinToleranceStrict(diff) == FLt(FAbs(diff), Num(LineTolerance, 1))

\* abs(diff) <= 1.0
LineWithinTolerance(diff) == FLe(FAbs(diff), Num(LineTolerance, 1))

\* one iteration of the loop over line_items: the entry appended to line_checks
LineCheck(li, idx) ==
  LET qty      == ToNumber(Or(Get(li, "qty"), Get(li, "quantity")))
      rate     == ToNumber(Or(Or(Get(li, "rate"), Get(li, "unit_price")),
                              Get(li, "price")))
      total    == ToNumber(Or(Or(Get(li, "total"), Get(li, "amount")),
                              Get(li, "total_price")))
      both     == ~IsNone(qty) /\ ~IsNone(rate)
      computed == IF both THEN Round2(FMul(qty, rate)) ELSE None
      checked  == both /\ ~IsNone(total)
      diff     == IF checked THEN Round2(FSub(computed, total)) ELSE None
      ok       == IF checked THEN PyBool(LineWithinTolerance(diff)) ELSE None
  IN  [line_index     |-> idx,
       item           |-> Or(Get(li, "item"), Get(li, "description")),
       qty            |-> qty,
       rate           |-> rate,
       total          |-> total,
       computed_total |-> computed,
       diff           |-> diff,
       ok             |-> ok]

\* faulty variant: a line with no stated total adds nothing
LineAmountStatedOnly(chk) == IF ~IsNone(chk.total) THEN chk.total ELSE Zero

\* what one line adds to sum_of_line_totals:
\* total if total is not None else (computed or 0.0)
LineAmount(chk) ==
  IF ~IsNone(chk.total) THEN chk.total ELSE Or(chk.computed_total, Zero)

\* parsed.get("line_items") or []
LineItems(p) ==
  LET v == Or(Get(p, "line_items"), [t |-> "list", items |-> <<>>])
  IN  v.items

\* faulty variant: a tolerance that excludes a difference of exactly 1.0
SumWithinToleranceStrict(diff) == FLt(FAbs(diff), Num(SumTolerance, 1))

\* abs(sum_diff) <= 1.0
SumWithinTolerance(diff) == FLe(FAbs(diff), Num(SumTolerance, 1))

\* the validations dict built once the loop has ended
TotalCheck(p, checks, sum) ==
  LET invoice_total == ToNumber(Or(Or(Get(p, "total_amount"), Get(p, "InvoiceTotal")),
                                   Get(p, "amount_due")))
      known    == ~IsNone(invoice_total)
      sum_diff == IF known THEN Round2(FSub(sum, invoice_total)) ELSE None
      sum_ok   == IF known THEN PyBool(SumWithinTolerance(sum_diff)) ELSE None
  IN  [t                  |-> "dict",
       lines              |-> checks,
       sum_of_line_totals |-> Round2(sum),
       invoice_total      |-> invoice_total,
       sum_diff           |-> sum_diff,
       sum_ok             |-> sum_ok,
       gstin_validation   |-> Absent]

-----------------------------------------------------------------------------
(* validate_gstin *)

\* the similarity from which two names count as matching, in tenths
MatchThresholdTenths == 7

\* the highest valid state code
MaxStateCode == 37

SetMax(S) == CHOOSE x \in S : \A y \in S : y <= x

SetMin(S) == CHOOSE x \in S : \A y \in S : x <= y

\* difflib.SequenceMatcher.find_longest_match without junk: the blocks
\* <<i, j, k>> with a[i..i+k-1] = b[j..j+k-1], of which the longest that
\* starts earliest in a, and among those earliest in b, is taken
MatchingBlocks(a, b) ==
  {c \in (1..Len(a)) \X (1..Len(b)) \X (1..Len(a)) :
     /\ c[1] + c[3] - 1 <= Len(a)
     /\ c[2] + c[3] - 1 <= Len(b)
     /\ SubSeq(a, c[1], c[1] + c[3] - 1) = SubSeq(b, c[2], c[2] + c[3] - 1)}

LongestMatch(a, b) ==
  LET all  == MatchingBlocks(a, b)
      k    == SetMax({c[3] : c \in all})
      i    == SetMin({c[1] : c \in {x \in all : x[3] = k}})
      j    == SetMin({c[2] : c \in {x \in all : x[3] = k /\ x[1] = i}})
  IN  <<i, j, k>>

\* the number of matched characters: the longest block, then the same to
\* its left and to its right (SequenceMatcher.get_matching_blocks)
RECURSIVE MatchedChars(_, _)
MatchedChars(a, b) ==
  IF MatchingBlocks(a, b) = {} THEN 0
  ELSE LET m == LongestMatch(a, b)
       IN  m[3]
           + MatchedChars(SubSeq(a, 1, m[1] - 1), SubSeq(b, 1, m[2] - 1))
           + MatchedChars(SubSeq(a, m[1] + m[3], Len(a)),
                          SubSeq(b, m[2] + m[3], Len(b)))

\* SequenceMatcher(a=a, b=b).ratio()
Similarity(a, b) ==
  IF Len(a) + Len(b) = 0 THEN Num(1, 1)
  ELSE Num(2 * MatchedChars(a, b), Len(a) + Len(b))

NameKeys == <<"business_name", "name", "legal_name", "company", "firm", "trade_name">>

ParentKeys == <<"data", "result", "payload">>

\* faulty variant: the last truthy value under the candidate name keys
FirstNameLast(d) ==
  LET hits == {i \in 1..Len(NameKeys) : Truthy(Get(d, NameKeys[i]))}
  IN  IF hits = {} THEN None ELSE d[NameKeys[SetMax(hits)]]

\* the first truthy value under the candidate name keys of a dict, else None
FirstName(d) ==
  LET hits == {i \in 1..Len(NameKeys) : Truthy(Get(d, NameKeys[i]))}
  IN  IF hits = {} THEN None ELSE d[NameKeys[SetMin(hits)]]

\* found_name: from the payload itself, else from the first nested dict
\* under data, result, payload that holds one; None when there is none
FoundName(ext) ==
  IF ext.t # "dict" THEN None
  ELSE IF ~IsNone(FirstName(ext)) THEN FirstName(ext)
  ELSE LET hits == {i \in 1..Len(ParentKeys) :
                      /\ ext[ParentKeys[i]].t = "dict"
                      /\ ~IsNone(FirstName(ext[ParentKeys[i]]))}
       IN  IF hits = {} THEN None ELSE FirstName(ext[ParentKeys[SetMin(hits)]])

\* a registry payload (a JSON object) holding none of the keys that are read
EmptyPayload ==
  [t |-> "dict", status |-> Absent, business_name |-> Absent, name |-> Absent,
   legal_name |-> Absent, company |-> Absent, firm |-> Absent,
   trade_name |-> Absent, data |-> Absent, result |-> Absent,
   payload |-> Absent, raw |-> Absent]

\* faulty variant: the body of an answer is kept whatever its status code
ExternalCheckAnyStatus(reg) ==
  IF ~reg.configured THEN Absent
  ELSE IF reg.kind \in {"json", "status"} THEN reg.body
  ELSE IF reg.kind = "text" THEN [EmptyPayload EXCEPT !.raw = reg.body]
  ELSE Absent

\* the external lookup (GET endpoint/gst), made when gstin_endpoint is set:
\* a 200 answer leaves its JSON body, or {"raw": text} for a body that is
\* no JSON, in external_check; any other answer leaves a note
ExternalCheck(reg) ==
  IF ~reg.configured THEN Absent
  ELSE IF reg.kind = "json" THEN reg.body
  ELSE IF reg.kind = "text" THEN [EmptyPayload EXCEPT !.raw = reg.body]
  ELSE Absent

ExternalNotes(reg) ==
  IF ~reg.configured THEN <<>>
  ELSE IF reg.kind = "status" THEN <<"external_service_error">>
  ELSE IF reg.kind = "exception" THEN <<"external_check_error">>
  ELSE <<>>

\* faulty variant: the fourteenth character may be any letter
MatchesPatternAnyLetter(gst) ==
  /\ \A i \in 1..2 : IsDigit(gst[i])
  /\ \A i \in 3..7 : IsUpperLetter(gst[i])
  /\ \A i \in 8..11 : IsDigit(gst[i])
  /\ IsUpperLetter(gst[12])
  /\ IsUpperLetter(gst[13]) \/ IsDigit(gst[13])
  /\ IsUpperLetter(gst[14])
  /\ IsUpperLetter(gst[15]) \/ IsDigit(gst[15])

\* the grammar: 2 digits, 5 letters, 4 digits, 1 letter, 1 alphanumeric, Z,
\* 1 alphanumeric (for a string of 15 characters)
MatchesPattern(gst) ==
  /\ \A i \in 1..2 : IsDigit(gst[i])
  /\ \A i \in 3..7 : IsUpperLetter(gst[i])
  /\ \A i \in 8..11 : IsDigit(gst[i])
  /\ IsUpperLetter(gst[12])
  /\ IsUpperLetter(gst[13]) \/ IsDigit(gst[13])
  /\ gst[14] = "Z"
  /\ IsUpperLetter(gst[15]) \/ IsDigit(gst[15])

\* faulty variant: the state code read from its second digit alone
StateCodeUnits(gst) == DigitVal(gst[2])

\* int(m.group("state"))
StateCode(gst) == DigitsVal(SubSeq(gst, 1, 2))

\* the business_name_match record
NameMatch(vendor_name, found_name) ==
  LET ratio == Similarity(StrLower(vendor_name.s), StrLower(found_name.s))
  IN  [t          |-> "dict",
       found_name |-> found_name,
       similarity |-> Round3(ratio),
       match      |-> PyBool(FGe(ratio, Num(MatchThresholdTenths, 10)))]

\* whether validate_gstin(gstin, vendor_name) raises: .strip() of a value
\* that is no string, .lower() of a vendor name that is no string
GstinRaises(gstin, vendor_name, reg) ==
  \/ Truthy(gstin) /\ gstin.t # "str"
  \/ LET gst == StrUpper(Strip(Or(gstin, Str(<<>>)).s))
         ext == ExternalCheck(reg)
     IN  /\ Len(gst) = 15 /\ MatchesPattern(gst)
         /\ Truthy(vendor_name) /\ ext.t # "absent" /\ Truthy(ext)
         /\ ~IsNone(FoundName(ext))
         /\ vendor_name.t # "str"

\* the dict validate_gstin(gstin, vendor_name) returns
ValidateGstin(gstin, vendor_name, reg) ==
  LET gst    == StrUpper(Strip(Or(gstin, Str(<<>>)).s))
      ext    == ExternalCheck(reg)
      n0     == ExternalNotes(reg)
      valid  == Len(gst) = 15 /\ MatchesPattern(gst)
      st_ok  == valid /\ 1 <= StateCode(gst) /\ StateCode(gst) <= MaxStateCode
      found  == IF valid /\ Truthy(vendor_name) /\ ext.t # "absent" /\ Truthy(ext)
                THEN FoundName(ext) ELSE None
      notes  == IF Len(gst) # 15
                THEN n0 \o <<"GSTIN must be 15 characters long">>
                ELSE IF ~valid
                THEN n0 \o <<"GSTIN does not match expected pattern (state+PAN+entity+Z+checksum)">>
                ELSE n0 \o (IF st_ok THEN <<>> ELSE <<"State code out of expected range 01-37">>)
                        \o <<"checksum_not_validated">>
  IN  [t                   |-> "dict",
       gstin               |-> Str(gst),
       valid_format        |-> PyBool(valid),
       state_code_ok       |-> PyBool(st_ok),
       notes               |-> [t |-> "list", items |-> notes],
       external_check      |-> ext,
       business_name_match |-> IF IsNone(found) THEN Absent
                               ELSE NameMatch(vendor_name, found),
       format_ok           |-> Absent,
       is_valid            |-> Absent,
       error               |-> Absent]

\* the dict get_bill_result puts in place of the result when the call raised
GstinError ==
  [t                   |-> "dict",
   gstin               |-> Absent,
   valid_format        |-> Absent,
   state_code_ok       |-> Absent,
   notes               |-> Absent,
   external_check      |-> Absent,
   business_name_match |-> Absent,
   format_ok           |-> Absent,
   is_valid            |-> Absent,
   error               |-> Str(<<"e">>)]

\* gstin and vendor_name as get_bill_result reads them from the parsed dict
GstinOf(p) ==
  LET gstin  == Or(Or(Get(p, "vendor_gstin"), Get(p, "gstin")), Get(p, "tax_id"))
      vendor == Or(Or(Get(p, "vendor"), Get(p, "supplier")), Get(p, "Vendor"))
  IN  IF vendor.t = "dict" THEN Or(gstin, Get(vendor, "gstin")) ELSE gstin

VendorNameOf(p) ==
  LET vendor == Or(Or(Get(p, "vendor"), Get(p, "supplier")), Get(p, "Vendor"))
  IN  IF vendor.t = "dict"
      THEN Or(Or(Get(vendor, "name"), Get(vendor, "vendor_name")), Get(vendor, "VendorName"))
      ELSE IF vendor.t = "str" THEN vendor
      ELSE None

\* faulty variant: validation is attempted only when a GSTIN is there
GstinValidationGstinOnly(p, reg) ==
  LET gstin == GstinOf(p)
      name  == VendorNameOf(p)
  IN  IF ~Truthy(gstin) THEN None
      ELSE IF GstinRaises(gstin, name, reg) THEN GstinError
      ELSE ValidateGstin(gstin, name, reg)

\* faulty variant: an exception of validate_gstin is not caught and takes
\* the place of the value
GstinValidationNoCatch(p, reg) ==
  LET gstin == GstinOf(p)
      name  == VendorNameOf(p)
  IN  IF ~(Truthy(gstin) \/ Truthy(name)) THEN None
      ELSE IF GstinRaises(Or(gstin, Str(<<>>)), name, reg) THEN [t |-> "raised"]
      ELSE ValidateGstin(Or(gstin, Str(<<>>)), name, reg)

\* gstin_validation: None when neither a GSTIN nor a vendor name is there
GstinValidation(p, reg) ==
  LET gstin == GstinOf(p)
      name  == VendorNameOf(p)
  IN  IF ~(Truthy(gstin) \/ Truthy(name)) THEN None
      ELSE IF GstinRaises(Or(gstin, Str(<<>>)), name, reg) THEN GstinError
      ELSE ValidateGstin(Or(gstin, Str(<<>>)), name, reg)

-----------------------------------------------------------------------------
(* get_bill_result: the risk score *)

\* the weights of the signals, in hundredths
TotalWeight == 50

LineWeight == 5

LineCap == 25

FormatWeight == 15

RegistryWeight == 35

MismatchWeight == 30

MatchBonus == 5

NoGstinWeight == 10

Pct(n) == Num(n, 100)

One == Num(1, 1)

Reason(text, arg) == [text |-> text, arg |-> arg]

TotalReason(sum_diff) == Reason("Invoice total differs from sum of lines by", sum_diff)

LineReason(n) == Reason("line item(s) with mismatched totals", Num(n, 1))

FormatReason == Reason("GSTIN format appears invalid", None)

RegistryReason == Reason("GSTIN not found in external registry", None)

MismatchReason ==
  Reason("Vendor name does not match registry/business name for GSTIN", None)

MatchReason == Reason("Vendor name matches registry for GSTIN", None)

NoGstinReason == Reason("No GSTIN provided", None)

LowRisk == Reason("Low risk - no significant arithmetic or GSTIN issues detected", None)

\* faulty variant: the reason is put first
AddReasonFirst(rs, r) == <<r>> \o rs

\* faulty variant: the reason is not recorded
AddReasonDropped(rs, r) == rs

\* reasons.append(r)
AddReason(rs, r) == Append(rs, r)

\* 1) sum_ok is False and sum_diff is not None
TotalMismatch(v) == IsFalse(v.sum_ok) /\ ~IsNone(v.sum_diff)

\* faulty variant: the ratio is not capped at 1.0
TotalMismatchAddUncapped(v) ==
  IF Truthy(v.invoice_total) /\ v.invoice_total # Zero
  THEN FMul(Pct(TotalWeight), FDiv(FAbs(v.sum_diff), FAbs(v.invoice_total)))
  ELSE Pct(TotalWeight)

\* 0.5 * min(abs(sum_diff) / abs(invoice_total), 1.0), or 0.5 when the
\* invoice total is zero
TotalMismatchAdd(v) ==
  IF Truthy(v.invoice_total) /\ v.invoice_total # Zero
  THEN FMul(Pct(TotalWeight),
            FMin(FDiv(FAbs(v.sum_diff), FAbs(v.invoice_total)), One))
  ELSE Pct(TotalWeight)

\* faulty variant: every line whose ok is not True counts, unchecked lines included
LineIssuesNotTrue(checks) ==
  Cardinality({i \in 1..Len(checks) : ~IsTrue(checks[i].ok)})

\* 2) the number of entries of line_checks whose ok is False
LineIssues(checks) == Cardinality({i \in 1..Len(checks) : IsFalse(checks[i].ok)})

\* min(0.25, 0.05 * line_issues)
LineIssueAdd(n) == FMin(Pct(LineCap), FMul(Pct(LineWeight), Num(n, 1)))

\* 3) format_ok as read from the validation dict
FormatOk(gv) ==
  Or(Or(Get(gv, "format_ok"), Get(gv, "valid_format")), Get(gv, "is_valid"))

NotFoundStatus ==
  {<<"n", "o", "t", "_", "f", "o", "u", "n", "d">>,
   <<"n", "o", "t", "_", "e", "x", "i", "s", "t", "s">>}

\* whether the registry signal fires for the external_check read from the dict
RegistryAbsent(external) ==
  /\ Truthy(external)
  /\ external.t = "dict"
  /\ \/ LET st == Get(external, "status")
        IN  st.t = "str" /\ st.s \in NotFoundStatus
     \/ ~Truthy(Get(external, "business_name"))

\* clamp to [0, 1]
Clamp(x) ==
  LET lo == IF FLt(x, Zero) THEN Zero ELSE x
  IN  IF FGt(lo, One) THEN One ELSE lo

-----------------------------------------------------------------------------
(* the stored extraction results and registry answers that are explored *)

\* most line items of an invoice drawn from all kinds of line
MaxLines == 3

\* most line items of an invoice whose lines all mismatch
MaxMismatched == 6

EmptyLine ==
  [t |-> "dict", qty |-> Absent, quantity |-> Absent, rate |-> Absent,
   unit_price |-> Absent, price |-> Absent, total |-> Absent,
   amount |-> Absent, total_price |-> Absent, item |-> Absent,
   description |-> Absent]

\* 2 x "3.85" = 7.7
ExactLine ==
  [EmptyLine EXCEPT !.qty = Num(2, 1), !.rate = Str(<<"3", ".", "8", "5">>),
                    !.total = Num(77, 10), !.item = Str(<<"c", "e", "m">>)]

\* 2 x 0.5 against a stated 2: a difference of exactly 1.0
BoundaryLine ==
  [EmptyLine EXCEPT !.quantity = Num(2, 1), !.unit_price = Num(1, 2),
                    !.amount = Num(2, 1), !.description = Str(<<"s", "a", "n", "d">>)]

\* 1 x "2.01" against a stated 1: a difference of 1.01
MismatchLine ==
  [EmptyLine EXCEPT !.qty = Num(1, 1), !.rate = Str(<<"2", ".", "0", "1">>),
                    !.total = Num(1, 1)]

\* 0.5 x 0.25 = 0.125 with no stated total
RoundedLine == [EmptyLine EXCEPT !.qty = Num(1, 2), !.price = Num(1, 4)]

\* a stated total "1,000" alone
TotalOnlyLine ==
  [EmptyLine EXCEPT !.total_price = Str(<<"1", ",", "0", "0", "0">>)]

\* texts that are no numbers
UnparsedLine ==
  [EmptyLine EXCEPT !.qty = Str(<<"a", "b", "c">>), !.rate = Num(1, 1),
                    !.total = Str(<<"n", "/", "a">>)]

LineKinds ==
  {ExactLine, BoundaryLine, MismatchLine, RoundedLine, TotalOnlyLine, UnparsedLine}

List(items) == [t |-> "list", items |-> items]

LineItemChoices ==
  {Absent}
    \cup {List(q) : q \in UNION {[1..k -> LineKinds] : k \in 0..MaxLines}}
    \cup {List([i \in 1..k |-> MismatchLine]) : k \in 0..MaxMismatched}

NoTotal == [total_amount |-> Absent, InvoiceTotal |-> Absent, amount_due |-> Absent]

TotalChoices ==
  {NoTotal,
   [NoTotal EXCEPT !.total_amount = Str(<<"0", ".", "0", "0">>)],
   [NoTotal EXCEPT !.total_amount = Num(77, 10)],
   [NoTotal EXCEPT !.InvoiceTotal = Str(<<"3">>)],
   [NoTotal EXCEPT !.amount_due = Str(<<"n", "a", "n">>)]}

ArithChoices == [line_items : LineItemChoices, total : TotalChoices]

ArithCore ==
  {[line_items |-> Absent, total |-> NoTotal],
   [line_items |-> List(<<ExactLine>>),
    total |-> [NoTotal EXCEPT !.total_amount = Num(77, 10)]],
   [line_items |-> List(<<MismatchLine>>),
    total |-> [NoTotal EXCEPT !.InvoiceTotal = Str(<<"3">>)]],
   [line_items |-> List([i \in 1..MaxMismatched |-> MismatchLine]),
    total |-> [NoTotal EXCEPT !.total_amount = Str(<<"0", ".", "0", "0">>)]],
   [line_items |-> List(<<UnparsedLine>>),
    total |-> [NoTotal EXCEPT !.total_amount = Str(<<"n", "/", "a">>)]]}

\* line items whose values are zero, stand under several keys, or are no scalar
ZeroQtyLine == [EmptyLine EXCEPT !.qty = Zero, !.rate = Str(<<"4">>)]

ZeroQuantityLine == [EmptyLine EXCEPT !.quantity = Zero, !.rate = Str(<<"4">>)]

ZeroTotalLine ==
  [EmptyLine EXCEPT !.qty = Num(1, 1), !.rate = Num(2, 1), !.total = Zero,
                    !.amount = Num(2, 1)]

BothKeysLine ==
  [EmptyLine EXCEPT !.qty = Num(2, 1), !.quantity = Num(3, 1), !.rate = Num(1, 1),
                    !.price = Num(9, 1), !.total = Num(2, 1), !.total_price = Num(7, 1)]

ListValueLine ==
  [EmptyLine EXCEPT !.qty = List(<<Num(1, 1)>>), !.rate = PyBool(TRUE),
                    !.total = Str(<<"1", ",", "0", "0", "0", ".", "5">>)]

ProbeLines == {ZeroQtyLine, ZeroQuantityLine, ZeroTotalLine, BothKeysLine, ListValueLine}

ProbeTotals ==
  {NoTotal,
   [NoTotal EXCEPT !.total_amount = Zero, !.InvoiceTotal = Str(<<"3">>)],
   [NoTotal EXCEPT !.InvoiceTotal = Zero],
   [NoTotal EXCEPT !.total_amount = Str(<<"n", "/", "a">>)]}

ArithProbe == {[line_items |-> List(<<k>>), total |-> t] : k \in ProbeLines, t \in ProbeTotals}

\* " 29abcde1234f2z5 ": valid once trimmed and uppercased
GstinValid ==
  Str(<<" ", "2", "9", "a", "b", "c", "d", "e", "1", "2", "3", "4", "f", "2", "z", "5", " ">>)

\* 15 characters that miss the Z
GstinNoZ ==
  Str(<<"2", "9", "A", "B", "C", "D", "E", "1", "2", "3", "4", "F", "2", "Y", "5">>)

GstinShort == Str(<<"2", "9", "A", "B", "C">>)

NoGstin == [vendor_gstin |-> Absent, gstin |-> Absent, tax_id |-> Absent]

GstinChoices ==
  {NoGstin,
   [NoGstin EXCEPT !.vendor_gstin = GstinValid],
   [NoGstin EXCEPT !.gstin = GstinNoZ],
   [NoGstin EXCEPT !.tax_id = GstinShort],
   [NoGstin EXCEPT !.vendor_gstin = Num(5, 1)]}

Acme == Str(<<"A", "c", "m", "e">>)

Apex == Str(<<"A", "p", "e", "x">>)

EmptyVendor ==
  [t |-> "dict", name |-> Absent, vendor_name |-> Absent,
   VendorName |-> Absent, gstin |-> Absent]

NoVendor == [vendor |-> Absent, supplier |-> Absent, Vendor |-> Absent]

VendorChoices ==
  {NoVendor,
   [NoVendor EXCEPT !.vendor = Acme],
   [NoVendor EXCEPT !.supplier =
      [EmptyVendor EXCEPT !.vendor_name = Apex, !.gstin = GstinValid]],
   [NoVendor EXCEPT !.Vendor = [EmptyVendor EXCEPT !.name = Num(7, 1)]]}

EmptyNested ==
  [t |-> "dict", business_name |-> Absent, name |-> Absent,
   legal_name |-> Absent, company |-> Absent, firm |-> Absent,
   trade_name |-> Absent]

Unconfigured == [configured |-> FALSE, kind |-> "none", body |-> None]

Answer(kind, body) == [configured |-> TRUE, kind |-> kind, body |-> body]

RegistryChoices ==
  {Unconfigured,
   Answer("status", None),
   Answer("exception", None),
   Answer("text", Str(<<"o", "o", "p", "s">>)),
   Answer("json", EmptyPayload),
   Answer("json", List(<<Acme>>)),
   Answer("json", [EmptyPayload EXCEPT !.business_name = Str(<<"A", "C", "M", "E">>)]),
   Answer("json", [EmptyPayload EXCEPT !.name = Acme]),
   Answer("json", [EmptyPayload EXCEPT !.status = Str(<<"n", "o", "t", "_", "f", "o", "u", "n", "d">>)]),
   Answer("json", [EmptyPayload EXCEPT !.data = [EmptyNested EXCEPT !.business_name = Acme]]),
   Answer("json", [EmptyPayload EXCEPT !.status = Str(<<"o", "k">>), !.business_name = Apex]),
   Answer("status", [EmptyPayload EXCEPT !.business_name = Acme]),
   Answer("json", [EmptyPayload EXCEPT !.business_name = Str(<<>>), !.legal_name = Apex,
                                       !.trade_name = Acme]),
   Answer("json", [EmptyPayload EXCEPT !.data = EmptyNested,
                                       !.result = [EmptyNested EXCEPT !.firm = Acme],
                                       !.payload = [EmptyNested EXCEPT !.name = Apex]]),
   Answer("json", [EmptyPayload EXCEPT !.name = Apex,
                                       !.data = [EmptyNested EXCEPT !.business_name = Acme]]),
   Answer("json", [EmptyPayload EXCEPT !.data = Str(<<"x">>),
                                       !.payload = [EmptyNested EXCEPT !.company = Acme]])}

GstinSideChoices == [gstin : GstinChoices, vendor : VendorChoices, registry : RegistryChoices]

\* GSTINs around the grammar: "29ABCDE1234F2Z5" with one character replaced,
\* dropped or added, nothing but blanks, and the state codes at the ends of
\* the range
GstinBase == <<"2", "9", "A", "B", "C", "D", "E", "1", "2", "3", "4", "F", "2", "Z", "5">>

ProbeChars == {"7", "q", "Z", " ", "-"}

StateProbes == {<<"0", "0">>, <<"0", "1">>, <<"3", "7">>, <<"3", "8">>, <<"9", "9">>}

GstinProbes ==
  {Str([GstinBase EXCEPT ![i] = c]) : i \in 1..Len(GstinBase), c \in ProbeChars}
    \cup {Str(st \o SubSeq(GstinBase, 3, Len(GstinBase))) : st \in StateProbes}
    \cup {Str(SubSeq(GstinBase, 1, Len(GstinBase) - 1)),
          Str(GstinBase \o <<"Z">>),
          Str(<<>>),
          Str(<<" ", " ">>)}

GstinSideProbe ==
  [gstin    : {[NoGstin EXCEPT !.gstin = g] : g \in GstinProbes},
   vendor   : {[NoVendor EXCEPT !.vendor = Acme]},
   registry : {Unconfigured,
               Answer("json", [EmptyPayload EXCEPT !.business_name = Acme])}]

GstinSideCore ==
  {[gstin |-> NoGstin, vendor |-> NoVendor, registry |-> Unconfigured],
   [gstin |-> [NoGstin EXCEPT !.tax_id = GstinShort],
    vendor |-> [NoVendor EXCEPT !.vendor = Acme],
    registry |-> Answer("json", [EmptyPayload EXCEPT !.status =
                   Str(<<"n", "o", "t", "_", "f", "o", "u", "n", "d">>)])],
   [gstin |-> [NoGstin EXCEPT !.vendor_gstin = GstinValid],
    vendor |-> [NoVendor EXCEPT !.vendor = Acme],
    registry |-> Answer("json", [EmptyPayload EXCEPT !.business_name =
                   Str(<<"A", "C", "M", "E">>)])],
   [gstin |-> NoGstin,
    vendor |-> [NoVendor EXCEPT !.vendor = Acme],
    registry |-> Unconfigured]}

\* every arithmetic choice with the core GSTIN sides, every GSTIN side with
\* the core arithmetic choices, and the probes of either side with the core
\* of the other
Cases ==
  (ArithChoices \X GstinSideCore)
    \cup (ArithCore \X GstinSideChoices)
    \cup (ArithProbe \X GstinSideCore)
    \cup ({[line_items |-> Absent, total |-> NoTotal]} \X GstinSideProbe)

\* the parsed dict json.load returns for a stored extraction result
Parsed(a, g) ==
  [t            |-> "dict",
   line_items   |-> a.line_items,
   total_amount |-> a.total.total_amount,
   InvoiceTotal |-> a.total.InvoiceTotal,
   amount_due   |-> a.total.amount_due,
   vendor_gstin |-> g.gstin.vendor_gstin,
   gstin        |-> g.gstin.gstin,
   tax_id       |-> g.gstin.tax_id,
   vendor       |-> g.vendor.vendor,
   supplier     |-> g.vendor.supplier,
   Vendor       |-> g.vendor.Vendor]

-----------------------------------------------------------------------------
(* get_bill_result as a sequence of steps over one stored extraction result *)

\* nothing is stored and no call is under way outside the one invocation
Elsewhere ==
  /\ parsed_dir = <<>> /\ bill_ids = {} /\ concurrent = None
  /\ budgets_file = <<>> /\ calls = <<>>
  /\ transactions_file = <<>> /\ performance_file = <<>>
  /\ rules_file = <<>> /\ violations_file = <<>> /\ checks_file = <<>>
  /\ now = 0 /\ returned = None

Init ==
  /\ \E c \in Cases :
       /\ parsed = Parsed(c[1], c[2])
       /\ registry = c[2].registry
  /\ pc = "lines"
  /\ line_checks = <<>>
  /\ sum_of_line_totals = Zero
  /\ validations = None
  /\ gstin_validation = None
  /\ score = Zero
  /\ reasons = <<>>
  /\ result = None
  /\ Elsewhere

\* one iteration of the loop over line_items
ReconcileLine ==
  /\ pc = "lines"
  /\ Len(line_checks) < Len(LineItems(parsed))
  /\ LET idx == Len(line_checks)
         chk == LineCheck(LineItems(parsed)[idx + 1], idx)
     IN  /\ line_checks' = Append(line_checks, chk)
         /\ sum_of_line_totals' = FAdd(sum_of_line_totals, LineAmount(chk))
  /\ UNCHANGED <<parsed, registry, pc, validations, gstin_validation, score,
                 reasons, result>>
  /\ UNCHANGED elsewhere

\* the loop has ended: the invoice total is compared with the sum
ReconcileTotal ==
  /\ pc = "lines"
  /\ Len(line_checks) = Len(LineItems(parsed))
  /\ validations' = TotalCheck(parsed, line_checks, sum_of_line_totals)
  /\ pc' = "gstin"
  /\ UNCHANGED <<parsed, registry, line_checks, sum_of_line_totals,
                 gstin_validation, score, reasons, result>>
  /\ UNCHANGED elsewhere

\* validate_gstin is called, if there is anything to validate, and its
\* result attached to validations
AttachGstinValidation ==
  /\ pc = "gstin"
  /\ gstin_validation' = GstinValidation(parsed, registry)
  /\ validations' = [validations EXCEPT !.gstin_validation = gstin_validation']
  /\ pc' = "score_total"
  /\ UNCHANGED <<parsed, registry, line_checks, sum_of_line_totals, score,
                 reasons, result>>
  /\ UNCHANGED elsewhere

\* 1) invoice total mismatch
ScoreTotalMismatch ==
  /\ pc = "score_total"
  /\ IF TotalMismatch(validations)
     THEN /\ score' = FAdd(score, TotalMismatchAdd(validations))
          /\ reasons' = AddReason(reasons, TotalReason(validations.sum_diff))
     ELSE UNCHANGED <<score, reasons>>
  /\ pc' = "score_lines"
  /\ UNCHANGED <<parsed, registry, line_checks, sum_of_line_totals,
                 validations, gstin_validation, result>>
  /\ UNCHANGED elsewhere

\* 2) per-line discrepancies
ScoreLineIssues ==
  /\ pc = "score_lines"
  /\ LET line_issues == LineIssues(line_checks)
     IN  IF line_issues # 0
         THEN /\ score' = FAdd(score, LineIssueAdd(line_issues))
              /\ reasons' = AddReason(reasons, LineReason(line_issues))
         ELSE UNCHANGED <<score, reasons>>
  /\ pc' = "score_gstin"
  /\ UNCHANGED <<parsed, registry, line_checks, sum_of_line_totals,
                 validations, gstin_validation, result>>
  /\ UNCHANGED elsewhere

\* 3) there is a validation dict: the format signal
ScoreGstinFormat ==
  /\ pc = "score_gstin"
  /\ Truthy(gstin_validation)
  /\ IF IsFalse(FormatOk(gstin_validation))
     THEN /\ score' = FAdd(score, Pct(FormatWeight))
          /\ reasons' = AddReason(reasons, FormatReason)
     ELSE UNCHANGED <<score, reasons>>
  /\ pc' = "score_registry"
  /\ UNCHANGED <<parsed, registry, line_checks, sum_of_line_totals,
                 validations, gstin_validation, result>>
  /\ UNCHANGED elsewhere

\* the registry signal
ScoreRegistry ==
  /\ pc = "score_registry"
  /\ IF RegistryAbsent(Get(gstin_validation, "external_check"))
     THEN /\ score' = FAdd(score, Pct(RegistryWeight))
          /\ reasons' = AddReason(reasons, RegistryReason)
     ELSE UNCHANGED <<score, reasons>>
  /\ pc' = "score_name"
  /\ UNCHANGED <<parsed, registry, line_checks, sum_of_line_totals,
                 validations, gstin_validation, result>>
  /\ UNCHANGED elsewhere

\* the name signal
ScoreNameMatch ==
  /\ pc = "score_name"
  /\ LET bn_match == Get(gstin_validation, "business_name_match")
     IN  IF IsFalse(bn_match)
         THEN /\ score' = FAdd(score, Pct(MismatchWeight))
              /\ reasons' = AddReason(reasons, MismatchReason)
         ELSE IF IsTrue(bn_match)
         THEN /\ score' = FMax(Zero, FSub(score, Pct(MatchBonus)))
              /\ reasons' = AddReason(reasons, MatchReason)
         ELSE UNCHANGED <<score, reasons>>
  /\ pc' = "finish"
  /\ UNCHANGED <<parsed, registry, line_checks, sum_of_line_totals,
                 validations, gstin_validation, result>>
  /\ UNCHANGED elsewhere

\* there is no validation dict: the missing GSTIN
ScoreNoGstin ==
  /\ pc = "score_gstin"
  /\ ~Truthy(gstin_validation)
  /\ IF ~Truthy(GstinOf(parsed))
     THEN /\ score' = FAdd(score, Pct(NoGstinWeight))
          /\ reasons' = AddReason(reasons, NoGstinReason)
     ELSE UNCHANGED <<score, reasons>>
  /\ pc' = "finish"
  /\ UNCHANGED <<parsed, registry, line_checks, sum_of_line_totals,
                 validations, gstin_validation, result>>
  /\ UNCHANGED elsewhere

\* the score is clamped and rounded and the result returned
Finish ==
  /\ pc = "finish"
  /\ score' = Clamp(score)
  /\ result' = [t                 |-> "dict",
                parsed            |-> parsed,
                validations       |-> validations,
                fraud_score       |-> Round2(score'),
                fraud_explanation |-> IF reasons # <<>> THEN reasons ELSE <<LowRisk>>,
                status            |-> "analysed"]
  /\ pc' = "done"
  /\ UNCHANGED <<parsed, registry, line_checks, sum_of_line_totals,
                 validations, gstin_validation, reasons>>
  /\ UNCHANGED elsewhere

Next ==
  \/ ReconcileLine
  \/ ReconcileTotal
  \/ AttachGstinValidation
  \/ ScoreTotalMismatch
  \/ ScoreLineIssues
  \/ ScoreGstinFormat
  \/ ScoreRegistry
  \/ ScoreNameMatch
  \/ ScoreNoGstin
  \/ Finish

Spec == Init /\ [][Next]_vars

-----------------------------------------------------------------------------
(* the same bill requested again: get_bill_result loads the stored          *)
(* extraction result anew and starts from fresh locals; result keeps the    *)
(* answer to the previous request                                           *)

\* the stored extraction results that are requested more than once
TwiceCases ==
  ((ArithCore \cup ArithProbe) \X GstinSideCore) \cup (ArithCore \X GstinSideChoices)

InitTwice ==
  /\ \E c \in TwiceCases :
       /\ parsed = Parsed(c[1], c[2])
       /\ registry = c[2].registry
  /\ pc = "lines"
  /\ line_checks = <<>>
  /\ sum_of_line_totals = Zero
  /\ validations = None
  /\ gstin_validation = None
  /\ score = Zero
  /\ reasons = <<>>
  /\ result = None
  /\ Elsewhere

\* faulty variant: the score of the previous request is carried over
RerunKeepScore ==
  /\ pc = "done"
  /\ pc' = "lines"
  /\ line_checks' = <<>>
  /\ sum_of_line_totals' = Zero
  /\ validations' = None
  /\ gstin_validation' = None
  /\ reasons' = <<>>
  /\ UNCHANGED <<parsed, registry, score, result>>
  /\ UNCHANGED elsewhere

\* the next request for the same bill
Rerun ==
  /\ pc = "done"
  /\ pc' = "lines"
  /\ line_checks' = <<>>
  /\ sum_of_line_totals' = Zero
  /\ validations' = None
  /\ gstin_validation' = None
  /\ score' = Zero
  /\ reasons' = <<>>
  /\ UNCHANGED <<parsed, registry, result>>
  /\ UNCHANGED elsewhere

NextTwice ==
  \/ Next
  \/ Rerun

SpecTwice == InitTwice /\ [][NextTwice]_vars

-----------------------------------------------------------------------------
(* upload_bill and get_bill_result over storage/parsed: requests come one   *)
(* after the other, and a request for a stored bill runs the steps above    *)

\* most bills uploaded
MaxBills == 2

\* str.endswith(suffix)
EndsWith(s, suffix) ==
  /\ Len(s) >= Len(suffix)
  /\ SubSeq(s, Len(s) - Len(suffix) + 1, Len(s)) = suffix

\* the names of the uploaded files
Filenames ==
  {<<"a", ".", "p", "d", "f">>, <<"A", ".", "P", "D", "F">>,
   <<"a", ".", "t", "x", "t">>, <<"p", "d", "f">>}

\* what analyze_invoice makes of the file: it raises, or returns a dict
Extractions ==
  {[raises |-> TRUE, parsed |-> None]}
    \cup {[raises |-> FALSE, parsed |-> Parsed(c[1], c[2])] :
            c \in {c \in ArithCore \X GstinSideCore :
                     c[1].line_items.t = "list" /\ c[2].vendor.vendor = Acme}}

\* the fallback record {"bill_id": ..., "error": ...} as json.load returns it
Fallback(bill_id) ==
  [bill_id |-> bill_id, error |-> Str(<<"e", "r", "r">>)]
    @@ Parsed([line_items |-> Absent, total |-> NoTotal],
              [gstin |-> NoGstin, vendor |-> NoVendor])

\* what the registry answers to the requests for stored bills
BillRegistries ==
  {Unconfigured, Answer("json", [EmptyPayload EXCEPT !.business_name = Acme])}

HTTPException(call, status_code) ==
  [t |-> "raised", call |-> call, status_code |-> status_code, bill_id |-> None]

\* uuid.uuid4(): an id no bill has yet
NewBillId == Cardinality(DOMAIN parsed_dir) + 1

InitBills ==
  /\ parsed = None /\ registry = Unconfigured
  /\ pc = "idle"
  /\ line_checks = <<>>
  /\ sum_of_line_totals = Zero
  /\ validations = None
  /\ gstin_validation = None
  /\ score = Zero
  /\ reasons = <<>>
  /\ result = None
  /\ Elsewhere

\* faulty variant: a failed extraction stores nothing
upload_billNoFallback ==
  /\ pc \in {"idle", "done"}
  /\ \E filename \in Filenames, extraction \in Extractions :
       IF ~EndsWith(StrLower(filename), <<".", "p", "d", "f">>)
       THEN /\ returned' = HTTPException("upload_bill", 400)
            /\ UNCHANGED <<parsed_dir, bill_ids>>
       ELSE /\ NewBillId <= MaxBills
            /\ parsed_dir' = IF extraction.raises THEN parsed_dir
                             ELSE parsed_dir @@ (NewBillId :> extraction.parsed)
            /\ bill_ids' = bill_ids \cup {NewBillId}
            /\ returned' = [t |-> "dict", call |-> "upload_bill",
                            bill_id |-> NewBillId, status |-> "uploaded"]
  /\ UNCHANGED <<assessment, concurrent, budgets_file, calls, transactions_file,
                 performance_file, rules_file, violations_file, checks_file, now>>

\* POST /upload_bill
upload_bill ==
  /\ pc \in {"idle", "done"}
  /\ \E filename \in Filenames, extraction \in Extractions :
       IF ~EndsWith(StrLower(filename), <<".", "p", "d", "f">>)
       THEN /\ returned' = HTTPException("upload_bill", 400)
            /\ UNCHANGED <<parsed_dir, bill_ids>>
       ELSE /\ NewBillId <= MaxBills
            /\ parsed_dir' = parsed_dir @@
                 (NewBillId :> IF extraction.raises THEN Fallback(NewBillId)
                               ELSE extraction.parsed)
            /\ bill_ids' = bill_ids \cup {NewBillId}
            /\ returned' = [t |-> "dict", call |-> "upload_bill",
                            bill_id |-> NewBillId, status |-> "uploaded"]
  /\ UNCHANGED <<assessment, concurrent, budgets_file, calls, transactions_file,
                 performance_file, rules_file, violations_file, checks_file, now>>

\* GET /get_bill_result/{bill_id}: 404, or the stored extraction result is
\* loaded and the assessment starts
get_bill_result ==
  /\ pc \in {"idle", "done"}
  /\ \E bill_id \in 1..MaxBills :
       IF bill_id \notin DOMAIN parsed_dir
       THEN /\ returned' = [HTTPException("get_bill_result", 404)
                              EXCEPT !.bill_id = bill_id]
            /\ UNCHANGED assessment
       ELSE /\ returned' = [t |-> "dict", call |-> "get_bill_result",
                            bill_id |-> bill_id, status |-> "analysed"]
            /\ parsed' = parsed_dir[bill_id]
            /\ registry' \in BillRegistries
            /\ pc' = "lines"
            /\ line_checks' = <<>>
            /\ sum_of_line_totals' = Zero
            /\ validations' = None
            /\ gstin_validation' = None
            /\ score' = Zero
            /\ reasons' = <<>>
            /\ result' = None
  /\ UNCHANGED <<parsed_dir, bill_ids, concurrent, budgets_file, calls,
                 transactions_file, performance_file, rules_file,
                 violations_file, checks_file, now>>

NextBills ==
  \/ upload_bill
  \/ get_bill_result
  \/ Next

SpecBills == InitBills /\ [][NextBills]_vars

-----------------------------------------------------------------------------
(* two get_bill_result invocations at the same time: the second one's       *)
(* locals are the record concurrent, and the steps of the two interleave    *)

\* the locals of an invocation that has just loaded p
Loaded(p, reg) ==
  [parsed |-> p, registry |-> reg, pc |-> "lines", line_checks |-> <<>>,
   sum_of_line_totals |-> Zero, validations |-> None, gstin_validation |-> None,
   score |-> Zero, reasons |-> <<>>, result |-> None]

\* the next step of get_bill_result on the locals l
Step(l) ==
  CASE l.pc = "lines" ->
         IF Len(l.line_checks) < Len(LineItems(l.parsed))
         THEN LET idx == Len(l.line_checks)
                  chk == LineCheck(LineItems(l.parsed)[idx + 1], idx)
              IN  [l EXCEPT !.line_checks = Append(@, chk),
                            !.sum_of_line_totals = FAdd(@, LineAmount(chk))]
         ELSE [l EXCEPT !.validations =
                          TotalCheck(l.parsed, l.line_checks, l.sum_of_line_totals),
                        !.pc = "gstin"]
    [] l.pc = "gstin" ->
         LET gv == GstinValidation(l.parsed, l.registry)
         IN  [l EXCEPT !.gstin_validation = gv,
                       !.validations = [@ EXCEPT !.gstin_validation = gv],
                       !.pc = "score_total"]
    [] l.pc = "score_total" ->
         IF TotalMismatch(l.validations)
         THEN [l EXCEPT !.score = FAdd(@, TotalMismatchAdd(l.validations)),
                        !.reasons = AddReason(@, TotalReason(l.validations.sum_diff)),
                        !.pc = "score_lines"]
         ELSE [l EXCEPT !.pc = "score_lines"]
    [] l.pc = "score_lines" ->
         LET line_issues == LineIssues(l.line_checks)
         IN  IF line_issues # 0
             THEN [l EXCEPT !.score = FAdd(@, LineIssueAdd(line_issues)),
                            !.reasons = AddReason(@, LineReason(line_issues)),
                            !.pc = "score_gstin"]
             ELSE [l EXCEPT !.pc = "score_gstin"]
    [] l.pc = "score_gstin" ->
         IF Truthy(l.gstin_validation)
         THEN IF IsFalse(FormatOk(l.gstin_validation))
              THEN [l EXCEPT !.score = FAdd(@, Pct(FormatWeight)),
                             !.reasons = AddReason(@, FormatReason),
                             !.pc = "score_registry"]
              ELSE [l EXCEPT !.pc = "score_registry"]
         ELSE IF ~Truthy(GstinOf(l.parsed))
              THEN [l EXCEPT !.score = FAdd(@, Pct(NoGstinWeight)),
                             !.reasons = AddReason(@, NoGstinReason),
                             !.pc = "finish"]
              ELSE [l EXCEPT !.pc = "finish"]
    [] l.pc = "score_registry" ->
         IF RegistryAbsent(Get(l.gstin_validation, "external_check"))
         THEN [l EXCEPT !.score = FAdd(@, Pct(RegistryWeight)),
                        !.reasons = AddReason(@, RegistryReason),
                        !.pc = "score_name"]
         ELSE [l EXCEPT !.pc = "score_name"]
    [] l.pc = "score_name" ->
         LET bn_match == Get(l.gstin_validation, "business_name_match")
         IN  IF IsFalse(bn_match)
             THEN [l EXCEPT !.score = FAdd(@, Pct(MismatchWeight)),
                            !.reasons = AddReason(@, MismatchReason),
                            !.pc = "finish"]
             ELSE IF IsTrue(bn_match)
             THEN [l EXCEPT !.score = FMax(Zero, FSub(@, Pct(MatchBonus))),
                            !.reasons = AddReason(@, MatchReason),
                            !.pc = "finish"]
             ELSE [l EXCEPT !.pc = "finish"]
    [] l.pc = "finish" ->
         [l EXCEPT !.score = Clamp(@),
                   !.result = [t                 |-> "dict",
                               parsed            |-> l.parsed,
                               validations       |-> l.validations,
                               fraud_score       |-> Round2(Clamp(l.score)),
                               fraud_explanation |-> IF l.reasons # <<>> THEN l.reasons
                                                     ELSE <<LowRisk>>,
                               status            |-> "analysed"],
                   !.pc = "done"]

\* the stored bills that are requested at the same time
PairCases ==
  {c \in ArithCore \X GstinSideCore :
     c[1].line_items.t = "list" /\ Len(c[1].line_items.items) = 1}

InitPair ==
  /\ \E a \in PairCases : \E b \in PairCases \ {a} :
       /\ parsed_dir = <<Parsed(a[1], a[2]), Parsed(b[1], b[2])>>
       /\ \E i \in 1..2, j \in 1..2 :
            /\ parsed = parsed_dir[i]
            /\ registry = (<<a, b>>[i])[2].registry
            /\ concurrent = Loaded(parsed_dir[j], (<<a, b>>[j])[2].registry)
  /\ bill_ids = {1, 2}
  /\ pc = "lines"
  /\ line_checks = <<>>
  /\ sum_of_line_totals = Zero
  /\ validations = None
  /\ gstin_validation = None
  /\ score = Zero
  /\ reasons = <<>>
  /\ result = None
  /\ budgets_file = <<>> /\ calls = <<>>
  /\ transactions_file = <<>> /\ performance_file = <<>>
  /\ rules_file = <<>> /\ violations_file = <<>> /\ checks_file = <<>>
  /\ now = 0 /\ returned = None

\* faulty variant: reasons is one list that both invocations append to
ConcurrentStepSharedReasons ==
  /\ concurrent.pc # "done"
  /\ concurrent' = Step(concurrent)
  /\ reasons' = reasons \o SubSeq(concurrent'.reasons, Len(concurrent.reasons) + 1,
                                  Len(concurrent'.reasons))
  /\ UNCHANGED <<parsed, registry, pc, line_checks, sum_of_line_totals,
                 validations, gstin_validation, score, result>>
  /\ UNCHANGED <<parsed_dir, bill_ids, budgets_file, calls, transactions_file,
                 performance_file, rules_file, violations_file, checks_file,
                 now, returned>>

\* a step of the second invocation, between two steps of the first
ConcurrentStep ==
  /\ concurrent.pc # "done"
  /\ concurrent' = Step(concurrent)
  /\ UNCHANGED assessment
  /\ UNCHANGED <<parsed_dir, bill_ids, budgets_file, calls, transactions_file,
                 performance_file, rules_file, violations_file, checks_file,
                 now, returned>>

NextPair ==
  \/ Next
  \/ ConcurrentStep

SpecPair == InitPair /\ [][NextPair]_vars

-----------------------------------------------------------------------------
(* BudgetTracker over budgets.json: create_budget in one step, add_expense  *)
(* as its steps between the file accesses (load_budgets, save_budgets, the  *)
(* return), so that the calls of two callers can interleave                 *)

\* sum(d.values())
RECURSIVE SumValues(_)
SumValues(d) ==
  IF DOMAIN d = {} THEN 0
  ELSE LET k == CHOOSE k \in DOMAIN d : TRUE
       IN  d[k] + SumValues([j \in DOMAIN d \ {k} |-> d[j]])

\* the budgets that are created: one within its total with a category that
\* is allocated nothing, one whose allocations exceed the total
Allocations ==
  {[total_budget |-> 10, category_allocations |-> [materials |-> 10, labor |-> 0]],
   [total_budget |-> 10, category_allocations |-> [materials |-> 10, labor |-> 5]]}

\* the expenses that are added: to a project with and without a budget, to
\* a category with and without an allocation
Expenses ==
  [project_id : {"p1", "p2"}, category : {"materials", "labor", "overhead"},
   amount : {3, 9}]

Raised(error) == [t |-> "raised", error |-> error]

\* a caller that has not called
NoCall ==
  [pc |-> "idle", project_id |-> "", category |-> "", amount |-> 0,
   budgets |-> <<>>, before |-> <<>>, outcome |-> None]

\* no add_expense call is between its first and its last step
NoneUnderWay == \A c \in DOMAIN calls : calls[c].pc \in {"idle", "returned", "raised"}

InitBudget ==
  /\ budgets_file = <<>>
  /\ calls = <<NoCall, NoCall>>
  /\ now = 0 /\ returned = None
  /\ parsed = None /\ registry = Unconfigured /\ pc = "idle"
  /\ line_checks = <<>> /\ sum_of_line_totals = Zero /\ validations = None
  /\ gstin_validation = None /\ score = Zero /\ reasons = <<>> /\ result = None
  /\ parsed_dir = <<>> /\ bill_ids = {} /\ concurrent = None
  /\ transactions_file = <<>> /\ performance_file = <<>>
  /\ rules_file = <<>> /\ violations_file = <<>> /\ checks_file = <<>>

\* create_budget(project_id, total_budget, category_allocations), for a
\* project that has no budget yet
create_budget ==
  /\ NoneUnderWay
  /\ \E project_id \in {"p1"}, a \in Allocations :
       /\ project_id \notin DOMAIN budgets_file
       /\ IF SumValues(a.category_allocations) > a.total_budget
          THEN /\ returned' = Raised("ValueError")
               /\ UNCHANGED budgets_file
          ELSE LET budget ==
                     [project_id        |-> project_id,
                      total_budget      |-> a.total_budget,
                      allocated_amounts |-> a.category_allocations,
                      spent_amounts     |-> [cat \in DOMAIN a.category_allocations |-> 0]]
               IN  /\ budgets_file' = (project_id :> budget) @@ budgets_file
                   /\ returned' = [t |-> "dict", budget |-> budget]
  /\ UNCHANGED <<assessment, parsed_dir, bill_ids, concurrent, calls,
                 transactions_file, performance_file, rules_file,
                 violations_file, checks_file, now>>

\* a caller calls add_expense(project_id, category, amount)
add_expense ==
  \E c \in DOMAIN calls :
    /\ calls[c].pc = "idle"
    /\ \E e \in Expenses :
         calls' = [calls EXCEPT ![c] =
                     [NoCall EXCEPT !.pc = "load", !.project_id = e.project_id,
                                    !.category = e.category, !.amount = e.amount,
                                    !.before = budgets_file]]
    /\ UNCHANGED <<assessment, parsed_dir, bill_ids, concurrent, budgets_file,
                   transactions_file, performance_file, rules_file,
                   violations_file, checks_file, now, returned>>

\* load_budgets, the two lookups and the update of the loaded budget
load_budgets ==
  \E c \in DOMAIN calls :
    /\ calls[c].pc = "load"
    /\ LET call    == calls[c]
           budgets == budgets_file
       IN  IF call.project_id \notin DOMAIN budgets
           THEN calls' = [calls EXCEPT ![c].pc = "raised",
                                       ![c].outcome = Raised("ValueError")]
           ELSE IF call.category \notin DOMAIN budgets[call.project_id].allocated_amounts
           THEN calls' = [calls EXCEPT ![c].pc = "raised",
                                       ![c].outcome = Raised("ValueError")]
           ELSE calls' = [calls EXCEPT
                            ![c].budgets =
                               [budgets EXCEPT
                                  ![call.project_id].spent_amounts[call.category] =
                                     @ + call.amount],
                            ![c].pc = "save"]
    /\ UNCHANGED <<assessment, parsed_dir, bill_ids, concurrent, budgets_file,
                   transactions_file, performance_file, rules_file,
                   violations_file, checks_file, now, returned>>

\* save_budgets(budgets): the file is replaced by the caller's budgets
save_budgets ==
  \E c \in DOMAIN calls :
    /\ calls[c].pc = "save"
    /\ budgets_file' = calls[c].budgets
    /\ calls' = [calls EXCEPT ![c].pc = "return"]
    /\ UNCHANGED <<assessment, parsed_dir, bill_ids, concurrent,
                   transactions_file, performance_file, rules_file,
                   violations_file, checks_file, now, returned>>

\* _check_budget_alerts: the alert for the share of the allocation spent
BudgetAlerts(spent, allocated) ==
  IF allocated > 0
  THEN IF spent * 100 > 100 * allocated THEN <<"overrun">>
       ELSE IF spent * 100 > 90 * allocated THEN <<"critical">>
       ELSE IF spent * 100 > 80 * allocated THEN <<"warning">>
       ELSE <<>>
  ELSE <<>>

\* the alerts are checked and the answer is built, its percentage_used
\* dividing by the allocated amount
check_budget_alerts ==
  \E c \in DOMAIN calls :
    /\ calls[c].pc = "return"
    /\ LET call      == calls[c]
           budget    == call.budgets[call.project_id]
           spent     == budget.spent_amounts[call.category]
           allocated == budget.allocated_amounts[call.category]
       IN  IF allocated = 0
           THEN calls' = [calls EXCEPT ![c].pc = "raised",
                                       ![c].outcome = Raised("ZeroDivisionError")]
           ELSE calls' = [calls EXCEPT
                            ![c].pc = "returned",
                            ![c].outcome =
                               [t |-> "dict", amount_added |-> call.amount,
                                new_spent_total |-> spent,
                                allocated_amount |-> allocated,
                                alerts |-> BudgetAlerts(spent, allocated)]]
    /\ UNCHANGED <<assessment, parsed_dir, bill_ids, concurrent, budgets_file,
                   transactions_file, performance_file, rules_file,
                   violations_file, checks_file, now, returned>>

\* the calls come one after the other
NextBudget ==
  \/ create_budget
  \/ NoneUnderWay /\ add_expense
  \/ load_budgets
  \/ save_budgets
  \/ check_budget_alerts

SpecBudget == InitBudget /\ [][NextBudget]_vars

\* the calls of the two callers interleave
NextExpenses ==
  \/ create_budget
  \/ add_expense
  \/ load_budgets
  \/ save_budgets
  \/ check_budget_alerts

SpecExpenses == InitBudget /\ [][NextExpenses]_vars

-----------------------------------------------------------------------------
(* ComplianceAutomation over compliance_rules.json, compliance_violations.json *)
(* and compliance_checks.json; dates are days                                *)

\* most run_compliance_check calls
MaxChecks == 2

\* the last day reached
MaxDay == 1

AmountThreshold == 200000

TdsThreshold == 30000

MaxPaymentDays == 45

\* the rules _create_default_rules writes, all active
DefaultRules ==
  <<[rule_id |-> "gstin-validation", severity |-> "error",
     check_function |-> "validate_gstin_format", active |-> TRUE],
    [rule_id |-> "invoice-amount-limit", severity |-> "warning",
     check_function |-> "check_amount_threshold", active |-> TRUE],
    [rule_id |-> "tds-compliance", severity |-> "error",
     check_function |-> "check_tds_deduction", active |-> TRUE],
    [rule_id |-> "documentation-completeness", severity |-> "warning",
     check_function |-> "check_documentation", active |-> TRUE],
    [rule_id |-> "payment-timeline", severity |-> "error",
     check_function |-> "check_payment_timeline", active |-> TRUE],
    [rule_id |-> "expense-categorization", severity |-> "warning",
     check_function |-> "check_expense_category", active |-> TRUE],
    [rule_id |-> "audit-trail", severity |-> "critical",
     check_function |-> "check_audit_trail", active |-> TRUE],
    [rule_id |-> "duplicate-invoice", severity |-> "error",
     check_function |-> "check_duplicate_invoice", active |-> TRUE]>>

\* the document types and categories the default rules name
InvoiceDoc ==
  <<"i", "n", "v", "o", "i", "c", "e">>

ChallanDoc ==
  <<"d", "e", "l", "i", "v", "e", "r", "y", "_", "c", "h", "a", "l", "l",
    "a", "n">>

CompletionDoc ==
  <<"w", "o", "r", "k", "_", "c", "o", "m", "p", "l", "e", "t", "i", "o",
    "n">>

Materials == <<"m", "a", "t", "e", "r", "i", "a", "l", "s">>

Labor == <<"l", "a", "b", "o", "r">>

Equipment == <<"e", "q", "u", "i", "p", "m", "e", "n", "t">>

Overhead == <<"o", "v", "e", "r", "h", "e", "a", "d">>

Services == <<"s", "e", "r", "v", "i", "c", "e", "s">>

RequiredDocs == <<InvoiceDoc, ChallanDoc, CompletionDoc>>

ValidCategories == {Materials, Labor, Equipment, Overhead, Services}

\* transaction_data.get(key, default)
GetOr(d, key, default) == IF d[key].t = "absent" THEN default ELSE d[key]

\* re.match of the GSTIN pattern of _check_gstin_format on a string
MatchesCompliancePattern(s) ==
  /\ Len(s) = 15
  /\ \A i \in {1, 2} \cup (8..11) : IsDigit(s[i])
  /\ \A i \in (3..7) \cup {12} : IsUpperLetter(s[i])
  /\ IsUpperLetter(s[13]) \/ (IsDigit(s[13]) /\ s[13] # "0")
  /\ s[14] = "Z"
  /\ IsUpperLetter(s[15]) \/ IsDigit(s[15])

\* what the check of a rule makes of the transaction: "none" (it returns
\* None), "violation" (it returns a violation) or "raises"
ExecuteRuleCheck(rule, transaction_data) ==
  LET f == rule.check_function
      amount == GetOr(transaction_data, "amount", Zero)
  IN  CASE f = "validate_gstin_format" ->
             LET gstin == GetOr(transaction_data, "vendor_gstin", Str(<<>>))
             IN  IF ~Truthy(gstin) THEN "violation"
                 ELSE IF gstin.t # "str" THEN "raises"
                 ELSE IF MatchesCompliancePattern(gstin.s) THEN "none"
                 ELSE "violation"
        [] f = "check_amount_threshold" ->
             IF amount.t # "num" THEN "raises"
             ELSE IF FGt(amount, Num(AmountThreshold, 1)) THEN "violation"
             ELSE "none"
        [] f = "check_tds_deduction" ->
             LET tds_amount   == GetOr(transaction_data, "tds_deducted", Zero)
                 expected_tds == FMul(amount, Num(1, 100))
             IN  IF amount.t # "num" THEN "raises"
                 ELSE IF ~FGt(amount, Num(TdsThreshold, 1)) THEN "none"
                 ELSE IF tds_amount.t # "num" THEN "raises"
                 ELSE IF FGt(FAbs(FSub(tds_amount, expected_tds)),
                             FMul(expected_tds, Num(1, 10)))
                 THEN "violation"
                 ELSE "none"
        [] f = "check_documentation" ->
             LET attached_docs == GetOr(transaction_data, "documents", List(<<>>))
             IN  IF attached_docs.t # "list" THEN "raises"
                 ELSE IF \E i \in 1..Len(attached_docs.items) :
                           attached_docs.items[i].t # "dict"
                 THEN "raises"
                 ELSE IF \A r \in 1..Len(RequiredDocs) :
                           \E i \in 1..Len(attached_docs.items) :
                             StrLower(attached_docs.items[i].type.s) = RequiredDocs[r]
                 THEN "none"
                 ELSE "violation"
        [] f = "check_payment_timeline" ->
             LET transaction_date == Get(transaction_data, "date")
                 payment_date     == Get(transaction_data, "payment_date")
             IN  IF ~(Truthy(transaction_date) /\ Truthy(payment_date)) THEN "none"
                 ELSE IF transaction_date.t # "date" \/ payment_date.t # "date"
                 THEN "raises"
                 ELSE IF payment_date.day - transaction_date.day > MaxPaymentDays
                 THEN "violation"
                 ELSE "none"
        [] f = "check_expense_category" ->
             LET category == GetOr(transaction_data, "category", Str(<<>>))
             IN  IF category.t # "str" THEN "raises"
                 ELSE IF StrLower(category.s) \in ValidCategories THEN "none"
                 ELSE "violation"
        [] f = "check_audit_trail" ->
             IF ~Truthy(GetOr(transaction_data, "audit_trail", List(<<>>)))
             THEN "violation"
             ELSE "none"
        [] OTHER -> "none"

\* the context of the violation a rule's check returns: its keys, the
\* values left out
Context(rule, outcome) ==
  LET keys ==
  CASE outcome = "raises" -> {"error", "transaction"}
    [] rule.check_function = "validate_gstin_format" -> {"gstin", "transaction_id"}
    [] rule.check_function = "check_amount_threshold" -> {"amount", "threshold"}
    [] rule.check_function = "check_tds_deduction" ->
         {"amount", "expected_tds", "actual_tds"}
    [] rule.check_function = "check_documentation" -> {"missing_documents"}
    [] rule.check_function = "check_payment_timeline" -> {"days_delayed", "max_days"}
    [] rule.check_function = "check_expense_category" ->
         {"category", "valid_categories"}
    [] OTHER -> {"transaction_id"}
  IN  [k \in keys |-> "_"]

\* faulty variant: the exception of a rule's check ends the loop
RECURSIVE RunRulesUntilRaise(_, _, _, _, _)
RunRulesUntilRaise(rules, transaction_data, day, next_id, run) ==
  IF rules = <<>> THEN run
  ELSE LET rule    == Head(rules)
           outcome == ExecuteRuleCheck(rule, transaction_data)
       IN  IF ~rule.active
           THEN RunRulesUntilRaise(Tail(rules), transaction_data, day, next_id, run)
           ELSE IF outcome = "raises"
           THEN [run EXCEPT !.executed = Append(@, [rule_id |-> rule.rule_id,
                                                    outcome |-> outcome])]
           ELSE RunRulesUntilRaise(Tail(rules), transaction_data, day,
                  IF outcome = "none" THEN next_id ELSE next_id + 1,
                  [executed   |-> Append(run.executed,
                                         [rule_id |-> rule.rule_id, outcome |-> outcome]),
                   violations |->
                     IF outcome = "none" THEN run.violations
                     ELSE Append(run.violations,
                            [violation_id  |-> next_id,
                             rule_id       |-> rule.rule_id,
                             severity      |-> rule.severity,
                             detected_date |-> day,
                             status        |-> "open",
                             context       |-> Context(rule, outcome)])])

\* the loop over the active rules: the checks made, and the violations
\* collected, a check that raises giving a 'warning' violation
RECURSIVE RunRules(_, _, _, _, _)
RunRules(rules, transaction_data, day, next_id, run) ==
  IF rules = <<>> THEN run
  ELSE LET rule    == Head(rules)
           outcome == ExecuteRuleCheck(rule, transaction_data)
       IN  IF ~rule.active
           THEN RunRules(Tail(rules), transaction_data, day, next_id, run)
           ELSE RunRules(Tail(rules), transaction_data, day,
                  IF outcome = "none" THEN next_id ELSE next_id + 1,
                  [executed   |-> Append(run.executed,
                                         [rule_id |-> rule.rule_id, outcome |-> outcome]),
                   violations |->
                     IF outcome = "none" THEN run.violations
                     ELSE Append(run.violations,
                            [violation_id  |-> next_id,
                             rule_id       |-> rule.rule_id,
                             severity      |-> IF outcome = "raises" THEN "warning"
                                               ELSE rule.severity,
                             detected_date |-> day,
                             status        |-> "open",
                             context       |-> Context(rule, outcome)])])

\* the status of the check record
CheckStatus(violations) ==
  IF \E i \in 1..Len(violations) : violations[i].severity \in {"error", "critical"}
  THEN "failed"
  ELSE IF violations # <<>> THEN "warning"
  ELSE "passed"

EmptyTransaction ==
  [t |-> "dict", vendor_gstin |-> Absent, amount |-> Absent, tds_deducted |-> Absent,
   documents |-> Absent, date |-> Absent, payment_date |-> Absent,
   category |-> Absent, audit_trail |-> Absent]

Date(day) == [t |-> "date", day |-> day]

Doc(type) == [t |-> "dict", type |-> Str(type)]

\* a transaction no rule objects to
CleanTransaction ==
  [EmptyTransaction EXCEPT
     !.vendor_gstin = Str(GstinBase),
     !.amount = Num(50000, 1), !.tds_deducted = Num(500, 1),
     !.documents = List(<<Doc(<<"I">> \o Tail(InvoiceDoc)), Doc(ChallanDoc),
                          Doc(CompletionDoc)>>),
     !.date = Date(0), !.payment_date = Date(45),
     !.category = Str(<<"L">> \o Tail(Labor)),
     !.audit_trail = List(<<Str(<<"a">>)>>)]

\* the transactions that are checked: one with nothing in it, one no rule
\* objects to, one whose amount is no number and whose category is none,
\* and one that breaks five rules
Transactions ==
  {EmptyTransaction,
   CleanTransaction,
   [CleanTransaction EXCEPT !.amount = Str(<<"l", "o", "t", "s">>),
                            !.category = None],
   [CleanTransaction EXCEPT !.vendor_gstin = Num(5, 1),
                            !.amount = Num(200001, 1),
                            !.tds_deducted = Num(100, 1),
                            !.payment_date = Date(46),
                            !.documents = List(<<Doc(<<"I">> \o Tail(InvoiceDoc))>>)]}

\* the rules a deployment has switched off
InactiveChoices == {{}, {"gstin-validation", "audit-trail"}}

InitCompliance ==
  /\ \E off \in InactiveChoices :
       rules_file = [i \in 1..Len(DefaultRules) |->
                       [DefaultRules[i] EXCEPT
                          !.active = DefaultRules[i].rule_id \notin off]]
  /\ violations_file = <<>> /\ checks_file = <<>>
  /\ now = 0 /\ returned = None
  /\ parsed = None /\ registry = Unconfigured /\ pc = "idle"
  /\ line_checks = <<>> /\ sum_of_line_totals = Zero /\ validations = None
  /\ gstin_validation = None /\ score = Zero /\ reasons = <<>> /\ result = None
  /\ parsed_dir = <<>> /\ bill_ids = {} /\ concurrent = None
  /\ budgets_file = <<>> /\ calls = <<>>
  /\ transactions_file = <<>> /\ performance_file = <<>>

\* run_compliance_check(transaction_data, project_id)
run_compliance_check ==
  /\ Len(checks_file) < MaxChecks
  /\ \E transaction_data \in Transactions, project_id \in {"P", "Q"} :
       LET run == RunRules(rules_file, transaction_data, now,
                           Len(violations_file) + 1,
                           [executed |-> <<>>, violations |-> <<>>])
           check_id == Len(checks_file) + 1
       IN  /\ violations_file' = violations_file \o run.violations
           /\ checks_file' =
                Append(checks_file,
                  [check_id         |-> check_id,
                   project_id       |-> project_id,
                   check_date       |-> now,
                   status           |-> CheckStatus(run.violations),
                   violations_found |-> [i \in 1..Len(run.violations) |->
                                           run.violations[i].violation_id]])
           /\ returned' = [t |-> "dict", call |-> "run_compliance_check",
                           check_id |-> check_id, violations |-> run.violations,
                           executed |-> run.executed]
  /\ UNCHANGED <<assessment, parsed_dir, bill_ids, concurrent, budgets_file, calls,
                 transactions_file, performance_file, rules_file, now>>

\* whether a violation passes the project filter of the report
InProject(v, project_id) ==
  \/ project_id = ""
  \/ (IF "project_id" \in DOMAIN v.context THEN v.context.project_id ELSE "None")
       = project_id

\* get_compliance_report(project_id, days); "" stands for no project_id
get_compliance_report ==
  /\ \E project_id \in {"P", ""}, days \in {0, 30} :
       LET start_date == now - days
           filtered   == SelectSeq(violations_file,
                           LAMBDA v : /\ start_date <= v.detected_date
                                      /\ v.detected_date <= now
                                      /\ InProject(v, project_id))
       IN  returned' = [t |-> "dict", call |-> "get_compliance_report",
                        project_id |-> project_id, start_date |-> start_date,
                        end_date |-> now,
                        total_violations |-> Len(filtered),
                        violations |-> [i \in 1..Len(filtered) |->
                                          filtered[i].violation_id]]
  /\ UNCHANGED <<assessment, parsed_dir, bill_ids, concurrent, budgets_file, calls,
                 transactions_file, performance_file, rules_file, violations_file,
                 checks_file, now>>

\* a day passes between two calls
DayPasses ==
  /\ now < MaxDay
  /\ now' = now + 1
  /\ UNCHANGED <<assessment, parsed_dir, bill_ids, concurrent, budgets_file, calls,
                 transactions_file, performance_file, rules_file, violations_file,
                 checks_file, returned>>

NextCompliance ==
  \/ run_compliance_check
  \/ get_compliance_report
  \/ DayPasses

SpecCompliance == InitCompliance /\ [][NextCompliance]_vars

-----------------------------------------------------------------------------
(* VendorAnalytics (vendor_analytics.py): vendor_transactions.json and the
   cache of performance entries in vendor_performance.json *)

\* how many transactions the store may hold
MaxTransactions == 2

\* an ISO timestamp string: its day and its UTC offset ("" when it has
\* none, as datetime.now().isoformat() gives)
Timestamp(day, tz) == [t |-> "date", day |-> day, tz |-> tz]

\* round(x, 1)
Round1(x) == Num(RoundHalfEven(x.n * 10, x.d), 10)

RECURSIVE SumAmounts(_)
SumAmounts(txns) ==
  IF txns = <<>> THEN Zero ELSE FAdd(Head(txns).amount, SumAmounts(Tail(txns)))

RECURSIVE SumInts(_)
SumInts(ratings) ==
  IF ratings = <<>> THEN 0 ELSE Head(ratings) + SumInts(Tail(ratings))

\* statistics.mean of the ratings, 0 when there are none
MeanOrZero(ratings) ==
  IF ratings = <<>> THEN Zero ELSE Num(SumInts(ratings), Len(ratings))

CountStatus(txns, status) ==
  Cardinality({i \in 1..Len(txns) : txns[i].status = status})

\* what the two fromisoformat calls and the subtraction make of a paid
\* transaction: "ok", or the exception they raise
PaymentDelay(txn) ==
  IF txn.payment_date.t # "date" THEN "ValueError"
  ELSE IF txn.payment_date.tz # txn.transaction_date.tz THEN "TypeError"
  ELSE "ok"

\* _calculate_risk_score
CalculateRiskScore(on_time_rate, quality, delivery, overdue, disputed, total) ==
  LET performance_score ==
        FMul(FDiv(FAdd(FSub(Num(5, 1), quality), FSub(Num(5, 1), delivery)),
                  Num(2, 1)),
             Num(20, 1))
      payment_score == FMul(FSub(Num(100, 1), on_time_rate), Num(3, 10))
      issue_rate    == IF total > 0 THEN Num((overdue + disputed) * 100, total)
                       ELSE Zero
      issue_score   == FMin(Num(30, 1), issue_rate)
      total_score   == FAdd(FAdd(performance_score, payment_score), issue_score)
  IN  Round1(FMin(Num(100, 1), total_score))

\* _get_risk_level
RiskLevel(risk_score) ==
  IF FLt(risk_score, Num(20, 1)) THEN "low"
  ELSE IF FLt(risk_score, Num(40, 1)) THEN "moderate"
  ELSE IF FLt(risk_score, Num(60, 1)) THEN "high"
  ELSE "very_high"

\* get_vendor_performance(vendor_name) on the stored transactions: the
\* dict it returns, or the exception it raises
VendorPerformance(transactions, vendor_name) ==
  LET vendor_txns == SelectSeq(transactions,
                               LAMBDA txn : txn.vendor_name = vendor_name)
      paid_txns   == SelectSeq(vendor_txns,
                               LAMBDA txn : /\ txn.status = "paid"
                                            /\ Truthy(txn.payment_date))
      failing     == {i \in 1..Len(paid_txns) : PaymentDelay(paid_txns[i]) # "ok"}
      on_time_payments ==
        Cardinality({i \in 1..Len(paid_txns) :
                       paid_txns[i].payment_date.day
                         - paid_txns[i].transaction_date.day <= 30})
      on_time_rate == IF paid_txns # <<>>
                      THEN Num(on_time_payments * 100, Len(paid_txns))
                      ELSE Zero
      total_amount == SumAmounts(vendor_txns)
      quality_ratings ==
        SelectSeq([i \in 1..Len(vendor_txns) |-> vendor_txns[i].quality_rating],
                  LAMBDA r : r # 0)
      delivery_ratings ==
        SelectSeq([i \in 1..Len(vendor_txns) |-> vendor_txns[i].delivery_rating],
                  LAMBDA r : r # 0)
      avg_quality  == MeanOrZero(quality_ratings)
      avg_delivery == MeanOrZero(delivery_ratings)
      overdue_txns  == CountStatus(vendor_txns, "overdue")
      disputed_txns == CountStatus(vendor_txns, "disputed")
      risk_score == CalculateRiskScore(on_time_rate, avg_quality, avg_delivery,
                                       overdue_txns, disputed_txns,
                                       Len(vendor_txns))
  IN  IF vendor_txns = <<>> THEN [t |-> "dict", error |-> vendor_name]
      ELSE IF failing # {}
      THEN Raised(PaymentDelay(paid_txns[SetMin(failing)]))
      ELSE [t                       |-> "dict",
            vendor_name             |-> vendor_name,
            total_transactions      |-> Len(vendor_txns),
            total_amount            |-> Round2(total_amount),
            average_transaction     |->
              Round2(FDiv(total_amount, Num(Len(vendor_txns), 1))),
            on_time_payment_rate    |-> Round1(on_time_rate),
            average_quality_rating  |-> Round2(avg_quality),
            average_delivery_rating |-> Round2(avg_delivery),
            risk_score              |-> risk_score,
            risk_level              |-> RiskLevel(risk_score),
            overdue_transactions    |-> overdue_txns,
            disputed_transactions   |-> disputed_txns,
            projects_worked         |->
              {vendor_txns[i].project_id : i \in 1..Len(vendor_txns)},
            last_transaction_date   |->
              SetMax({vendor_txns[i].transaction_date.day :
                        i \in 1..Len(vendor_txns)}),
            status_breakdown        |->
              [s \in {vendor_txns[i].status : i \in 1..Len(vendor_txns)} |->
                 CountStatus(vendor_txns, s)]]

\* update_vendor_performance(vendor_name) on the transactions just saved:
\* the cache file afterwards; an exception of get_vendor_performance leaves
\* the file as it was
UpdateVendorPerformance(transactions, vendor_name) ==
  LET performance == VendorPerformance(transactions, vendor_name)
  IN  IF performance.t = "raised" THEN performance_file
      ELSE (vendor_name :> performance) @@ performance_file

\* the transaction the sample data is cut down to
SampleTransaction ==
  [transaction_id   |-> 1,
   vendor_name      |-> "W",
   project_id       |-> "proj-001",
   amount           |-> Num(100, 1),
   transaction_date |-> Timestamp(0, ""),
   payment_date     |-> None,
   status           |-> "overdue",
   quality_rating   |-> 3,
   delivery_rating  |-> 3]

\* the arguments add_transaction is called with
NewTransactions ==
  {[vendor_name |-> "V", project_id |-> "proj-001", amount |-> Num(100, 1),
    quality_rating |-> 3],
   [vendor_name |-> "W", project_id |-> "proj-002", amount |-> Num(5001, 20),
    quality_rating |-> 5]}

\* the payment_date arguments of mark_payment: left out, a day more than
\* thirty days on, a timestamp with a UTC offset, a string that is no date
PaymentDates ==
  {None, Timestamp(now + 31, ""), Timestamp(now, "+00:00"), Str(<<"?">>)}

\* VendorAnalytics(): the sample data and the cache made from it
InitVendor ==
  /\ transactions_file = <<SampleTransaction>>
  /\ performance_file =
       ("W" :> VendorPerformance(<<SampleTransaction>>, "W"))
  /\ now = 0 /\ returned = None
  /\ parsed = None /\ registry = Unconfigured /\ pc = "idle"
  /\ line_checks = <<>> /\ sum_of_line_totals = Zero /\ validations = None
  /\ gstin_validation = None /\ score = Zero /\ reasons = <<>> /\ result = None
  /\ parsed_dir = <<>> /\ bill_ids = {} /\ concurrent = None
  /\ budgets_file = <<>> /\ calls = <<>>
  /\ rules_file = <<>> /\ violations_file = <<>> /\ checks_file = <<>>

\* what the caller of a VendorAnalytics method gets: the value returned, or
\* the exception of update_vendor_performance
Outcome(call, value, transactions, vendor_name) ==
  LET performance == VendorPerformance(transactions, vendor_name)
  IN  IF performance.t = "raised"
      THEN [t |-> "raised", call |-> call, error |-> performance.error]
      ELSE value

\* add_transaction(vendor_name, project_id, amount, category, quality_rating)
add_transaction ==
  /\ Len(transactions_file) < MaxTransactions
  /\ \E new \in NewTransactions :
       LET transaction ==
             [transaction_id   |-> Len(transactions_file) + 1,
              vendor_name      |-> new.vendor_name,
              project_id       |-> new.project_id,
              amount           |-> new.amount,
              transaction_date |-> Timestamp(now, ""),
              payment_date     |-> None,
              status           |-> "pending",
              quality_rating   |-> new.quality_rating,
              delivery_rating  |-> 3]
           transactions == Append(transactions_file, transaction)
       IN  /\ transactions_file' = transactions
           /\ performance_file' =
                UpdateVendorPerformance(transactions, new.vendor_name)
           /\ returned' =
                Outcome("add_transaction",
                        [t |-> "str", call |-> "add_transaction",
                         transaction_id |-> transaction.transaction_id],
                        transactions, new.vendor_name)
  /\ UNCHANGED <<assessment, parsed_dir, bill_ids, concurrent, budgets_file, calls,
                 rules_file, violations_file, checks_file, now>>

\* mark_payment(transaction_id, payment_date)
mark_payment ==
  /\ \E transaction_id \in 1..(MaxTransactions + 1) :
     \E payment_date \in PaymentDates :
       LET found == {i \in 1..Len(transactions_file) :
                       transactions_file[i].transaction_id = transaction_id}
           i     == SetMin(found)
           transactions ==
             [transactions_file EXCEPT
                ![i].status = "paid",
                ![i].payment_date = Or(payment_date, Timestamp(now, ""))]
           vendor_name == transactions_file[i].vendor_name
       IN  IF found = {}
           THEN /\ returned' = [t |-> "bool", call |-> "mark_payment",
                                transaction_id |-> transaction_id, b |-> FALSE]
                /\ UNCHANGED <<transactions_file, performance_file>>
           ELSE /\ transactions_file' = transactions
                /\ performance_file' =
                     UpdateVendorPerformance(transactions, vendor_name)
                /\ returned' =
                     Outcome("mark_payment",
                             [t |-> "bool", call |-> "mark_payment",
                              transaction_id |-> transaction_id, b |-> TRUE],
                             transactions, vendor_name)
  /\ UNCHANGED <<assessment, parsed_dir, bill_ids, concurrent, budgets_file, calls,
                 rules_file, violations_file, checks_file, now>>

NextVendor ==
  \/ add_transaction
  \/ mark_payment
  \/ DayPasses

SpecVendor == InitVendor /\ [][NextVendor]_vars

-----------------------------------------------------------------------------
(* the claims *)

HasReason(r) == \E i \in 1..Len(reasons) : reasons[i] = r

\* neither a GSTIN nor a vendor name is in the stored extraction result
NoGstinInfo == ~Truthy(GstinOf(parsed)) /\ ~Truthy(VendorNameOf(parsed))

\* C1: the fraud_score returned by get_bill_result lies in [0.0, 1.0] for
\* every extracted invoice.
C1_ScoreInUnitInterval ==
  pc = "done" =>
    FLe(Zero, result.fraud_score) /\ FLe(result.fraud_score, One)

\* C2: the total-mismatch step adds 0.5 * min(|sum_diff| / |invoice_total|, 1.0)
\* (0.5 flat for an invoice total of zero) and appends its reason exactly
\* when sum_ok is false; otherwise it changes neither score nor reasons.
C2_TotalMismatchSignal ==
  [][pc = "score_total" =>
       LET v     == validations
           ratio == FDiv(FAbs(v.sum_diff), FAbs(v.invoice_total))
       IN  IF v.sum_ok = PyBool(FALSE)
           THEN /\ score' = FAdd(score, IF v.invoice_total = Zero THEN Num(1, 2)
                                        ELSE IF FLt(One, ratio) THEN Num(1, 2)
                                        ELSE FMul(Num(1, 2), ratio))
                /\ reasons' = Append(reasons, TotalReason(v.sum_diff))
           ELSE score' = score /\ reasons' = reasons]_vars

\* a mismatch smaller than the invoice total has been scored
C2_Witness ==
  /\ pc = "score_lines"
  /\ validations.sum_ok = PyBool(FALSE)
  /\ FLt(Zero, score) /\ FLt(score, Num(1, 2))
  /\ reasons = <<TotalReason(validations.sum_diff)>>

\* C3: the line-item step counts the lines whose ok is false (never those
\* whose ok is absent), adds min(0.25, 0.05 * count), which is 0.25 from 5
\* lines on, and appends its reason if and only if count > 0.
C3_LineItemSignal ==
  [][pc = "score_lines" =>
       LET count == Cardinality({i \in 1..Len(line_checks) :
                                   line_checks[i].ok = PyBool(FALSE)})
       IN  /\ score' = FAdd(score, IF count >= 5 THEN Num(1, 4)
                                   ELSE Num(5 * count, 100))
           /\ reasons' = IF count > 0 THEN Append(reasons, LineReason(count))
                         ELSE reasons]_vars

\* six mismatched lines have been scored at the cap
C3_Witness ==
  /\ pc = "score_gstin"
  /\ Len(line_checks) = 6
  /\ \A i \in 1..6 : line_checks[i].ok = PyBool(FALSE)
  /\ HasReason(LineReason(6))
  /\ score = Num(3, 4)

\* C4: whenever a GSTIN validation result exists and its format-valid flag
\* is false, the GSTIN step adds 0.15 and appends "GSTIN format appears
\* invalid".
C4_FormatSignal ==
  [][/\ pc = "score_gstin"
     /\ gstin_validation.t = "dict"
     /\ gstin_validation.valid_format = PyBool(FALSE)
     => /\ score' = FAdd(score, Num(15, 100))
        /\ reasons' = Append(reasons, FormatReason)]_vars

\* C5: whenever validate_gstin produced a name-match record, the name step
\* adds 0.30 with the mismatch reason if match is false, and subtracts 0.05
\* (floored at 0) with the match reason if match is true.
C5_NameSignal ==
  [][/\ pc = "score_name"
     /\ gstin_validation.business_name_match.t = "dict"
     => IF gstin_validation.business_name_match.match = PyBool(FALSE)
        THEN /\ score' = FAdd(score, Num(30, 100))
             /\ reasons' = Append(reasons, MismatchReason)
        ELSE /\ score' = FMax(Zero, FSub(score, Num(5, 100)))
             /\ reasons' = Append(reasons, MatchReason)]_vars

\* C6: the registry step adds 0.35 and appends "GSTIN not found in
\* external registry" exactly when an external-check payload exists and
\* either its status is not_found or not_exists or it carries no business
\* name field.
C6_RegistrySignal ==
  [][pc = "score_registry" =>
       LET ext     == gstin_validation.external_check
           exists  == ext.t \notin {"absent", "none"}
           status  == /\ ext.t = "dict"
                      /\ ext.status.t = "str"
                      /\ ext.status.s \in NotFoundStatus
           noname  == ~(ext.t = "dict" /\ ext.business_name.t # "absent")
       IN  IF exists /\ (status \/ noname)
           THEN /\ score' = FAdd(score, Num(35, 100))
                /\ reasons' = Append(reasons, RegistryReason)
           ELSE score' = score /\ reasons' = reasons]_vars

\* C7: "No GSTIN provided" (+0.10) fires if and only if the invoice has
\* neither a GSTIN nor a vendor name; then gstin_validation is None in the
\* output; and it never appears together with a format, registry or name
\* reason.
C7_NoGstinSignal ==
  /\ [](pc = "done" =>
          /\ HasReason(NoGstinReason) <=> NoGstinInfo
          /\ NoGstinInfo => result.validations.gstin_validation = None
          /\ ~(/\ HasReason(NoGstinReason)
               /\ \/ HasReason(FormatReason)
                  \/ HasReason(RegistryReason)
                  \/ HasReason(MismatchReason)
                  \/ HasReason(MatchReason)))
  /\ [][pc = "score_gstin" /\ NoGstinInfo =>
          /\ score' = FAdd(score, Num(10, 100))
          /\ reasons' = Append(reasons, NoGstinReason)]_vars

\* an invoice with no GSTIN and no vendor has been assessed
C7_Witness ==
  /\ pc = "done"
  /\ NoGstinInfo
  /\ reasons = <<NoGstinReason>>
  /\ result.fraud_score = Num(10, 100)
  /\ result.validations.gstin_validation = None

\* the step of the evaluation order a reason belongs to
ReasonRank(r) ==
  CASE r.text = TotalReason(None).text -> 1
    [] r.text = LineReason(0).text     -> 2
    [] r.text = FormatReason.text      -> 3
    [] r.text = RegistryReason.text    -> 4
    [] r.text = MismatchReason.text    -> 5
    [] r.text = MatchReason.text       -> 5
    [] r.text = NoGstinReason.text     -> 6

\* C8: the reasons list is at every moment a subsequence of the evaluation
\* order total, lines, format, registry, name, no GSTIN: no reason twice,
\* none before a reason of an earlier step.
C8_ReasonsInOrder ==
  \A i, j \in 1..Len(reasons) :
    i < j => ReasonRank(reasons[i]) < ReasonRank(reasons[j])

\* three signals have fired
C8_Witness ==
  /\ pc = "done"
  /\ Len(reasons) = 3
  /\ ReasonRank(reasons[1]) = 1
  /\ ReasonRank(reasons[2]) = 2
  /\ ReasonRank(reasons[3]) = 4

Present(x) == x.t # "none"

\* C9: in every line check, computed_total is round(q * r, 2) when q and r
\* are both present and absent otherwise; diff and ok are present exactly
\* when q, r and t all are, and then diff = round(computed_total - t, 2)
\* and ok = (|diff| <= 1.0).
C9_LineChecks ==
  \A i \in 1..Len(line_checks) :
    LET c == line_checks[i]
        q == c.qty
        r == c.rate
        t == c.total
    IN  /\ Present(c.computed_total) <=> (Present(q) /\ Present(r))
        /\ Present(c.computed_total) => c.computed_total = Round2(FMul(q, r))
        /\ Present(c.diff) <=> (Present(q) /\ Present(r) /\ Present(t))
        /\ Present(c.ok) <=> Present(c.diff)
        /\ Present(c.diff) =>
             /\ c.diff = Round2(FSub(c.computed_total, t))
             /\ c.ok = PyBool(FLe(FAbs(c.diff), One))

\* a line whose difference is exactly 1.0 has passed, beside a line that
\* could not be checked
C9_Witness ==
  /\ \E i \in 1..Len(line_checks) :
       /\ Present(line_checks[i].diff)
       /\ FAbs(line_checks[i].diff) = One
       /\ line_checks[i].ok = PyBool(TRUE)
  /\ \E i \in 1..Len(line_checks) :
       /\ Present(line_checks[i].total)
       /\ ~Present(line_checks[i].qty)
       /\ ~Present(line_checks[i].ok)

C10_Amount(c) ==
  IF Present(c.total) THEN c.total
  ELSE IF Present(c.computed_total) THEN c.computed_total
  ELSE Zero

RECURSIVE C10_Sum(_)
C10_Sum(checks) ==
  IF Len(checks) = 0 THEN Zero
  ELSE FAdd(C10_Sum(SubSeq(checks, 1, Len(checks) - 1)),
            C10_Amount(checks[Len(checks)]))

\* C10: sum_of_line_totals is the sum over the line items, in order, of
\* the stated total when present, else the computed total when present,
\* else 0.0; it is always a number; the lines list has one entry per line
\* item with line_index its position; no line items give 0.0 and no lines.
C10_SumOfLines ==
  /\ sum_of_line_totals = C10_Sum(line_checks)
  /\ sum_of_line_totals.t = "num"
  /\ \A i \in 1..Len(line_checks) : line_checks[i].line_index = i - 1
  /\ pc # "lines" =>
       /\ Len(line_checks) = Len(LineItems(parsed))
       /\ validations.lines = line_checks
       /\ LineItems(parsed) = <<>> =>
            sum_of_line_totals = Zero /\ validations.lines = <<>>

\* three lines have been summed: one by its stated total, one by its
\* computed total, one by 0.0
C10_Witness ==
  /\ pc = "done"
  /\ Len(line_checks) = 3
  /\ \E i, j, k \in 1..3 :
       /\ Present(line_checks[i].total)
       /\ ~Present(line_checks[j].total) /\ Present(line_checks[j].computed_total)
       /\ ~Present(line_checks[k].total) /\ ~Present(line_checks[k].computed_total)
  /\ FLt(Zero, sum_of_line_totals)

\* C11: when the normalized invoice total is present, sum_diff is
\* round(line_sum - invoice_total, 2) and sum_ok is (|sum_diff| <= 1.0);
\* when it is absent, sum_diff and sum_ok are absent too, and the
\* total-mismatch step adds nothing to the score and appends no reason.
C11_SumDiff ==
  /\ [](pc # "lines" =>
          LET v == validations
          IN  IF Present(v.invoice_total)
              THEN /\ v.sum_diff = Round2(FSub(sum_of_line_totals, v.invoice_total))
                   /\ v.sum_ok = PyBool(FLe(FAbs(v.sum_diff), One))
              ELSE ~Present(v.sum_diff) /\ ~Present(v.sum_ok))
  /\ [][pc = "score_total" /\ ~Present(validations.invoice_total) =>
          score' = score /\ reasons' = reasons]_vars

\* a sum that misses the invoice total by exactly 1.0 has passed
C11_Witness ==
  /\ pc = "done"
  /\ Present(validations.invoice_total)
  /\ Len(line_checks) > 0
  /\ FAbs(validations.sum_diff) = One
  /\ validations.sum_ok = PyBool(TRUE)
  /\ ~HasReason(TotalReason(validations.sum_diff))

\* validate_gstin has returned a result (it did not raise)
Validated ==
  /\ pc \notin {"lines", "gstin"}
  /\ gstin_validation.t = "dict"
  /\ gstin_validation.error.t = "absent"

\* the GSTIN get_bill_result hands to validate_gstin, trimmed and uppercased
NormalGstin == StrUpper(Strip(Or(GstinOf(parsed), Str(<<>>)).s))

HasNote(n) ==
  \E i \in 1..Len(gstin_validation.notes.items) : gstin_validation.notes.items[i] = n

LengthNote == "GSTIN must be 15 characters long"

PatternNote == "GSTIN does not match expected pattern (state+PAN+entity+Z+checksum)"

ChecksumNote == "checksum_not_validated"

RangeNote == "State code out of expected range 01-37"

\* the grammar, one class per position: D digit, L letter, X either, Z the letter Z
C12_Classes == <<"D", "D", "L", "L", "L", "L", "L", "D", "D", "D", "D", "L", "X", "Z", "X">>

C12_InClass(c, k) ==
  CASE k = "D" -> c \in {"0", "1", "2", "3", "4", "5", "6", "7", "8", "9"}
    [] k = "L" -> c \in Range(UpperAlpha)
    [] k = "X" -> c \in Range(UpperAlpha) \cup {"0", "1", "2", "3", "4", "5", "6", "7", "8", "9"}
    [] k = "Z" -> c = "Z"

C12_WellFormed(g) ==
  /\ Len(g) = 15
  /\ \A i \in 1..15 : C12_InClass(g[i], C12_Classes[i])

\* C12: valid_format is true if and only if the trimmed, uppercased input
\* has 15 characters and matches the grammar 2 digits, 5 letters, 4 digits,
\* 1 letter, 1 alphanumeric, Z, 1 alphanumeric; the checksum note is there
\* exactly when valid_format is true; a wrong length gives the length note
\* and no pattern note; 15 characters off the grammar give the pattern note.
C12_ValidFormat ==
  Validated =>
    /\ gstin_validation.gstin = Str(NormalGstin)
    /\ gstin_validation.valid_format = PyBool(C12_WellFormed(NormalGstin))
    /\ HasNote(ChecksumNote) <=> gstin_validation.valid_format = PyBool(TRUE)
    /\ Len(NormalGstin) # 15 => HasNote(LengthNote) /\ ~HasNote(PatternNote)
    /\ Len(NormalGstin) = 15 /\ ~C12_WellFormed(NormalGstin) =>
         HasNote(PatternNote) /\ ~HasNote(LengthNote)

\* a GSTIN of 15 characters whose fourteenth is a letter other than Z has
\* been refused with the pattern note
C12_Witness ==
  /\ Validated
  /\ Len(NormalGstin) = 15
  /\ NormalGstin[14] = "Q"
  /\ \A i \in 1..13 : NormalGstin[i] = GstinBase[i]
  /\ gstin_validation.valid_format = PyBool(FALSE)
  /\ HasNote(PatternNote)

C13_State(g) ==
  LET d(c) == CHOOSE n \in 0..9 : DigitChars[n + 1] = c
  IN  10 * d(g[1]) + d(g[2])

\* C13: state_code_ok is true if and only if valid_format is true and the
\* state code lies in 1..37; a state code outside it appends the
\* out-of-range note and leaves valid_format true.
C13_StateCode ==
  Validated =>
    LET g     == NormalGstin
        valid == gstin_validation.valid_format = PyBool(TRUE)
    IN  /\ gstin_validation.state_code_ok =
             PyBool(valid /\ 1 <= C13_State(g) /\ C13_State(g) <= 37)
        /\ HasNote(RangeNote) <=>
             (C12_WellFormed(g) /\ (C13_State(g) = 0 \/ C13_State(g) >= 38))
        /\ HasNote(RangeNote) => valid

\* the state code 38 has been noted as out of range in a valid GSTIN
C13_Witness ==
  /\ Validated
  /\ Len(NormalGstin) = 15
  /\ SubSeq(NormalGstin, 1, 2) = <<"3", "8">>
  /\ gstin_validation.valid_format = PyBool(TRUE)
  /\ gstin_validation.state_code_ok = PyBool(FALSE)
  /\ HasNote(RangeNote)

\* C14: the registry lookup is made only after the length and grammar
\* checks have passed: a result whose valid_format is false carries no
\* external-check payload.
C14_LookupAfterFormat ==
  Validated /\ gstin_validation.valid_format = PyBool(FALSE) =>
    gstin_validation.external_check.t = "absent"

\* the lookup is configured and fails: a status other than 200, or an exception
LookupFails == registry.configured /\ registry.kind \in {"status", "exception"}

\* validate_gstin is called with a string for the GSTIN
CalledWithString ==
  /\ Truthy(GstinOf(parsed)) \/ Truthy(VendorNameOf(parsed))
  /\ Or(GstinOf(parsed), Str(<<>>)).t = "str"

\* C15: when the lookup fails, validate_gstin (called with a string) does
\* not raise; the failure is one note ahead of the notes of a run with no
\* registry configured; there is no external-check payload and no
\* name-match record; gstin, valid_format and state_code_ok are those of
\* the run with no registry configured.
C15_LookupFailure ==
  pc \notin {"lines", "gstin"} /\ LookupFails /\ CalledWithString =>
    LET plain == ValidateGstin(Or(GstinOf(parsed), Str(<<>>)), VendorNameOf(parsed),
                               Unconfigured)
        gv    == gstin_validation
    IN  /\ Validated
        /\ gv.external_check.t = "absent"
        /\ gv.business_name_match.t = "absent"
        /\ Len(gv.notes.items) = Len(plain.notes.items) + 1
        /\ gv.notes.items[1] \in {"external_service_error", "external_check_error"}
        /\ Tail(gv.notes.items) = plain.notes.items
        /\ gv.gstin = plain.gstin
        /\ gv.valid_format = plain.valid_format
        /\ gv.state_code_ok = plain.state_code_ok

\* a valid GSTIN with a vendor name has been validated although the
\* registry answered with an error status
C15_Witness ==
  /\ pc = "done"
  /\ registry.configured /\ registry.kind = "status"
  /\ registry.body.t = "dict"
  /\ Truthy(VendorNameOf(parsed))
  /\ Validated
  /\ gstin_validation.valid_format = PyBool(TRUE)
  /\ gstin_validation.notes.items = <<"external_service_error", ChecksumNote>>

C16_Keys == <<"business_name", "name", "legal_name", "company", "firm", "trade_name">>

\* the value of the first of the keys that holds a non-empty value, else None
RECURSIVE C16_First(_, _)
C16_First(d, keys) ==
  IF keys = <<>> THEN None
  ELSE IF d[Head(keys)].t = "str" /\ d[Head(keys)].s # <<>> THEN d[Head(keys)]
  ELSE C16_First(d, Tail(keys))

\* the candidate of the first of the nested objects that holds one, else None
RECURSIVE C16_Nested(_, _)
C16_Nested(ext, parents) ==
  IF parents = <<>> THEN None
  ELSE LET sub == ext[Head(parents)]
       IN  IF sub.t = "dict" /\ C16_First(sub, C16_Keys) # None
           THEN C16_First(sub, C16_Keys)
           ELSE C16_Nested(ext, Tail(parents))

C16_Candidate(ext) ==
  IF ext.t # "dict" THEN None
  ELSE IF C16_First(ext, C16_Keys) # None THEN C16_First(ext, C16_Keys)
  ELSE C16_Nested(ext, <<"data", "result", "payload">>)

\* C16: for a format-valid GSTIN, with a vendor name supplied and a
\* payload returned, the candidate name is the first non-empty of
\* business_name, name, legal_name, company, firm, trade_name at the top
\* level of the payload, else the first such inside data, result, payload
\* in that order; a candidate gives the record {found_name, similarity =
\* round(ratio, 3), match = (ratio >= 0.70)}; no candidate, no vendor name
\* or no payload gives no record at all.
C16_NameMatch ==
  Validated /\ gstin_validation.valid_format = PyBool(TRUE) =>
    LET gv    == gstin_validation
        name  == VendorNameOf(parsed)
        ext   == gv.external_check
        cand  == IF ext.t = "absent" THEN None ELSE C16_Candidate(ext)
        ratio == Similarity(StrLower(name.s), StrLower(cand.s))
    IN  IF Truthy(name) /\ cand # None
        THEN /\ gv.business_name_match.t = "dict"
             /\ gv.business_name_match.found_name = cand
             /\ gv.business_name_match.similarity = Round3(ratio)
             /\ gv.business_name_match.match = PyBool(FLe(Num(7, 10), ratio))
        ELSE gv.business_name_match.t = "absent"

\* the candidate has been taken from the nested object result, the object
\* data holding none, and matched against the vendor name
C16_Witness ==
  /\ Validated
  /\ gstin_validation.valid_format = PyBool(TRUE)
  /\ gstin_validation.external_check.t = "dict"
  /\ gstin_validation.external_check.data.t = "dict"
  /\ gstin_validation.external_check.result.t = "dict"
  /\ gstin_validation.external_check.payload.t = "dict"
  /\ gstin_validation.business_name_match.t = "dict"
  /\ gstin_validation.business_name_match.found_name = Acme
  /\ gstin_validation.business_name_match.match = PyBool(TRUE)

QtyKeys == <<"qty", "quantity">>

RateKeys == <<"rate", "unit_price", "price">>

LineTotalKeys == <<"total", "amount", "total_price">>

InvoiceTotalKeys == <<"total_amount", "InvoiceTotal", "amount_due">>

\* d.get(k1) or d.get(k2) or ...: the value get_bill_result hands to _to_number
RECURSIVE C17_Fed(_, _)
C17_Fed(d, keys) ==
  IF Len(keys) = 1 THEN Get(d, keys[1])
  ELSE Or(C17_Fed(d, SubSeq(keys, 1, Len(keys) - 1)), Get(d, keys[Len(keys)]))

\* r is what the normalizer owes for the value v
C17_Normal(v, r) ==
  /\ r.t \in {"none", "num", "nan"}
  /\ v.t = "none" => r = None
  /\ v.t \in {"num", "nan"} => r = v
  /\ v.t = "bool" => r = Num(IF v.b THEN 1 ELSE 0, 1)
  /\ v.t = "str" =>
       LET text == RemoveChar(v.s, ",")
       IN  /\ r = ParseFloat(text)
           /\ (text # <<>> /\ \A i \in 1..Len(text) : IsDigit(text[i])) =>
                r = Num(DigitsVal(text), 1)
           /\ (\E i \in 1..Len(text) : text[i] \in {"/", "[", "x"}) => r = None
  /\ v.t \in {"list", "dict"} => r = None

\* C17: _to_number returns absent for a missing value, a numeric value
\* unchanged, and for any other value the number parsed from its text with
\* the commas removed, or absent when that text is no number; it returns
\* in every case (the result is always absent or a float).
C17_ToNumber ==
  /\ \A i \in 1..Len(line_checks) :
       LET li == LineItems(parsed)[i]
           c  == line_checks[i]
       IN  /\ C17_Normal(C17_Fed(li, QtyKeys), c.qty)
           /\ C17_Normal(C17_Fed(li, RateKeys), c.rate)
           /\ C17_Normal(C17_Fed(li, LineTotalKeys), c.total)
  /\ pc # "lines" =>
       C17_Normal(C17_Fed(parsed, InvoiceTotalKeys), validations.invoice_total)

\* a line has been normalized whose quantity is a list, whose rate is the
\* boolean true and whose total is the text "1,000.5"; the invoice total
\* was no number
C17_Witness ==
  /\ pc = "done"
  /\ Len(line_checks) = 1
  /\ LineItems(parsed)[1].qty.t = "list"
  /\ line_checks[1].qty = None
  /\ line_checks[1].rate = Num(1, 1)
  /\ LineItems(parsed)[1].total = Str(<<"1", ",", "0", "0", "0", ".", "5">>)
  /\ line_checks[1].total = Num(2001, 2)
  /\ parsed.total_amount = Str(<<"n", "/", "a">>)
  /\ validations.invoice_total = None

\* the value of the first of the keys that is present, else None
RECURSIVE C18_FirstPresent(_, _)
C18_FirstPresent(d, keys) ==
  IF keys = <<>> THEN None
  ELSE IF d[Head(keys)].t \notin {"absent", "none"} THEN d[Head(keys)]
  ELSE C18_FirstPresent(d, Tail(keys))

\* C18: the value normalized for quantity, rate, line total and invoice
\* total is that of the first candidate key that is present (qty,
\* quantity; rate, unit_price, price; total, amount, total_price;
\* total_amount, InvoiceTotal, amount_due), a numeric zero included: a
\* quantity of 0 with a rate gives computed_total 0.0, and a stated total
\* of 0 is used rather than a later key.
C18_FirstPresentKey ==
  /\ \A i \in 1..Len(line_checks) :
       LET li == LineItems(parsed)[i]
           c  == line_checks[i]
       IN  /\ c.qty = ToNumber(C18_FirstPresent(li, QtyKeys))
           /\ c.rate = ToNumber(C18_FirstPresent(li, RateKeys))
           /\ c.total = ToNumber(C18_FirstPresent(li, LineTotalKeys))
           /\ (C18_FirstPresent(li, QtyKeys) = Zero /\ Present(c.rate)) =>
                c.computed_total = Zero
  /\ pc # "lines" =>
       validations.invoice_total = ToNumber(C18_FirstPresent(parsed, InvoiceTotalKeys))

\* the positions of get_bill_result, its return last
Positions ==
  <<"lines", "gstin", "score_total", "score_lines", "score_gstin",
    "score_registry", "score_name", "finish", "done">>

\* validate_gstin raises on what get_bill_result hands to it
ValidationRaises ==
  /\ Truthy(GstinOf(parsed)) \/ Truthy(VendorNameOf(parsed))
  /\ GstinRaises(Or(GstinOf(parsed), Str(<<>>)), VendorNameOf(parsed), registry)

\* C19: whatever is present, absent or unparsable in the stored extraction
\* result, and also when validate_gstin raises, get_bill_result is at
\* every moment at a position from which its next step can be taken (the
\* loop has lines left or has ended, the validation is a value or None,
\* never an exception on its way out) and at its end it returns a
\* fraud_score and a fraud_explanation.
C19_Completes ==
  /\ pc \in Range(Positions)
  /\ pc = "lines" => Len(line_checks) <= Len(LineItems(parsed))
  /\ pc \notin {"lines", "gstin"} =>
       /\ gstin_validation.t \in {"none", "dict"}
       /\ ValidationRaises => gstin_validation.error.t = "str"
       /\ validations.gstin_validation = gstin_validation
  /\ pc \in {"score_registry", "score_name"} => gstin_validation.t = "dict"
  /\ pc = "done" =>
       /\ result.t = "dict"
       /\ result.fraud_score.t \in {"num", "nan"}
       /\ Len(result.fraud_explanation) >= 1
       /\ result.status = "analysed"

\* an invoice whose quantity and totals are no numbers and whose GSTIN
\* made validate_gstin raise has been assessed
C19_Witness ==
  /\ pc = "done"
  /\ gstin_validation = GstinError
  /\ Len(line_checks) = 1
  /\ LineItems(parsed)[1].qty.t = "str" /\ line_checks[1].qty = None
  /\ parsed.total_amount.t = "str" /\ validations.invoice_total = None
  /\ result.fraud_score.t = "num"
  /\ result.validations.gstin_validation = GstinError

C22_Explanation ==
  pc = "done" =>
    /\ reasons # <<>> => result.fraud_explanation = reasons
    /\ reasons = <<>> => result.fraud_explanation = <<LowRisk>>
    /\ result.fraud_explanation = <<LowRisk>> => result.fraud_score = Zero

\* an invoice with a vendor name and a GSTIN whose registry entry matches,
\* without one finding, has been answered with the low-risk sentence
C22_Witness ==
  /\ pc = "done"
  /\ result.fraud_explanation = <<LowRisk>>
  /\ gstin_validation.t = "dict"
  /\ result.fraud_score = Zero

\* C23: every invoice with no GSTIN string is given a GSTIN-related reason,
\* 'No GSTIN provided' when there is no vendor name either and 'GSTIN format
\* appears invalid' when a vendor name had the empty GSTIN validated.
C23_NoGstinSignal ==
  pc = "done" /\ ~Truthy(GstinOf(parsed)) =>
    IF Truthy(VendorNameOf(parsed))
    THEN HasReason(FormatReason)
    ELSE HasReason(NoGstinReason)

\* C24: whenever the validation result carries a name-match record and the
\* status of the registry payload is neither not_found nor not_exists,
\* 'GSTIN not found in external registry' is not among the reasons.
C24_FoundNameNotAbsent ==
  pc = "done" /\ gstin_validation.t = "dict" =>
    LET external == Get(gstin_validation, "external_check")
    IN  /\ Get(gstin_validation, "business_name_match").t = "dict"
        /\ external.t = "dict"
        /\ LET st == Get(external, "status")
           IN  ~(st.t = "str" /\ st.s \in NotFoundStatus)
        => ~HasReason(RegistryReason)

\* the stored extraction result at hand is a fallback record
IsFallback(p) == "error" \in DOMAIN p

\* C25: over any sequence of upload_bill and get_bill_result calls,
\* get_bill_result(bill_id) answers 404 if and only if no earlier upload_bill
\* returned that bill_id; an upload rejected with 400 stores nothing and
\* returns no id; the bill of an upload whose extraction failed is stored as
\* a fallback record and a later get_bill_result for it returns status
\* 'analysed' with a score.
C25_NotFoundIffNeverUploaded ==
  /\ [][(pc \in {"idle", "done"} /\ returned'.t # "none"
            /\ returned'.call = "get_bill_result") =>
          /\ returned'.t = "raised" <=> returned'.bill_id \notin bill_ids
          /\ returned'.t = "raised" => returned'.status_code = 404]_vars
  /\ [][returned'.t = "raised" /\ returned'.call = "upload_bill" =>
          /\ returned'.status_code = 400
          /\ returned'.bill_id = None
          /\ parsed_dir' = parsed_dir /\ bill_ids' = bill_ids]_vars
  /\ [](bill_ids = DOMAIN parsed_dir)
  /\ [](pc = "done" /\ IsFallback(parsed) =>
          /\ parsed.bill_id \in bill_ids
          /\ parsed = Fallback(parsed.bill_id)
          /\ result.status = "analysed"
          /\ result.fraud_score.t = "num")

\* of two uploads the first failed in extraction; its bill has been
\* assessed, after a request for a bill that was not there got 404
C25_Witness ==
  /\ pc = "done"
  /\ IsFallback(parsed)
  /\ returned.bill_id = 1
  /\ result.fraud_score = Pct(NoGstinWeight)
  /\ Cardinality(bill_ids) = 2

\* the result of an invocation that runs from l with nothing in between
RECURSIVE Alone(_)
Alone(l) == IF l.pc = "done" THEN l.result ELSE Alone(Step(l))

WithExpense(b, call) ==
  [b EXCEPT ![call.project_id].spent_amounts[call.category] = @ + call.amount]

\* whenever add_expense returns, the stored spent amount of its category
\* has grown by the amount and nothing else has changed
C26_ReturnedAddsAmount ==
  [][\A c \in DOMAIN calls :
       calls'[c].pc = "returned" /\ calls[c].pc # "returned" =>
         budgets_file' = WithExpense(calls[c].before, calls[c])]_vars

\* C26: add_expense is all-or-nothing: whenever a call raises (unknown
\* project, unknown category, or any other error such as a category whose
\* allocated amount is 0) the stored budgets are as they were before the
\* call, and whenever it returns the stored spent amount of its category
\* has grown by exactly the amount, all else unchanged.
C26_AllOrNothing ==
  [][\A c \in DOMAIN calls :
       /\ calls'[c].pc = "raised" /\ calls[c].pc # "raised" =>
            budgets_file' = calls[c].before
       /\ calls'[c].pc = "returned" /\ calls[c].pc # "returned" =>
            budgets_file' = WithExpense(calls[c].before, calls[c])]_vars

\* C30: when two add_expense calls for the same project run at the same
\* time and both return, each category's stored spent amount is its
\* previous value (0.0 from create_budget) plus every amount added to it.
C30_NoLostExpense ==
  (/\ \A c \in DOMAIN calls : calls[c].pc = "returned"
   /\ calls[1].project_id = calls[2].project_id) =>
    \A cat \in DOMAIN budgets_file[calls[1].project_id].spent_amounts :
      budgets_file[calls[1].project_id].spent_amounts[cat] =
        SumValues([c \in DOMAIN calls |->
                     IF calls[c].category = cat THEN calls[c].amount ELSE 0])

\* the stored violation with the given id
ViolationOf(violation_id) ==
  violations_file[CHOOSE i \in 1..Len(violations_file) :
                    violations_file[i].violation_id = violation_id]

\* C27: every violation detected by run_compliance_check(transaction,
\* project_id = P) is among the violations of a later
\* get_compliance_report(project_id = P) whose period covers its detection
\* date, and is not in the report of a different project.
C27_ReportShowsProjectViolations ==
  returned.t = "dict" /\ returned.call = "get_compliance_report"
    /\ returned.project_id # "" =>
    \A c \in 1..Len(checks_file) :
      \A f \in 1..Len(checks_file[c].violations_found) :
        LET violation_id == checks_file[c].violations_found[f]
            detected     == ViolationOf(violation_id).detected_date
            listed       == \E i \in 1..Len(returned.violations) :
                              returned.violations[i] = violation_id
        IN  IF checks_file[c].project_id = returned.project_id
            THEN returned.start_date <= detected /\ detected <= returned.end_date
                   => listed
            ELSE ~listed

\* the ids of the rules of the file that are active, in the file's order
ActiveRuleIds ==
  LET active == SelectSeq(rules_file, LAMBDA rule : rule.active)
  IN  [i \in 1..Len(active) |-> active[i].rule_id]

\* C28: run_compliance_check executes every active rule and no inactive
\* one; a rule whose check raises becomes a 'warning' violation and the
\* rules after it still run; every violation found is stored and listed in
\* the check record's violations_found; the recorded status is 'failed'
\* exactly when a violation has severity 'error' or 'critical', 'warning'
\* exactly when there are violations but none of those, 'passed' exactly
\* when there are none.
C28_EveryActiveRuleRuns ==
  returned.t = "dict" /\ returned.call = "run_compliance_check" =>
    LET executed   == returned.executed
        violations == returned.violations
        record     == checks_file[returned.check_id]
        severe     == \E i \in 1..Len(violations) :
                        violations[i].severity \in {"error", "critical"}
    IN  /\ [i \in 1..Len(executed) |-> executed[i].rule_id] = ActiveRuleIds
        /\ \A i \in 1..Len(executed) :
             executed[i].outcome = "raises" =>
               \E j \in 1..Len(violations) :
                 /\ violations[j].rule_id = executed[i].rule_id
                 /\ violations[j].severity = "warning"
        /\ Len(violations) =
             Cardinality({i \in 1..Len(executed) : executed[i].outcome # "none"})
        /\ \A j \in 1..Len(violations) :
             /\ \E i \in 1..Len(violations_file) : violations_file[i] = violations[j]
             /\ record.violations_found[j] = violations[j].violation_id
        /\ Len(record.violations_found) = Len(violations)
        /\ record.status = "failed" <=> severe
        /\ record.status = "warning" <=> violations # <<>> /\ ~severe
        /\ record.status = "passed" <=> violations = <<>>

\* two rules are switched off; of the six that ran, two raised on an
\* amount that is no number and one on a category that is none, which
\* gave three 'warning' violations and the status 'warning'
C28_Witness ==
  /\ returned.t = "dict" /\ returned.call = "run_compliance_check"
  /\ Len(ActiveRuleIds) = 6
  /\ Len(returned.executed) = 6
  /\ returned.executed[1].outcome = "raises"
  /\ returned.executed[2].outcome = "raises"
  /\ returned.executed[5].outcome = "raises"
  /\ Len(returned.violations) = 3
  /\ checks_file[returned.check_id].status = "warning"

\* the vendors that have a stored transaction
StoredVendors ==
  {transactions_file[i].vendor_name : i \in 1..Len(transactions_file)}

\* mark_payment on an unknown transaction id returns False and changes
\* neither the transactions nor the cache
C29_UnknownIdChangesNothing ==
  [][(returned'.t = "bool" /\ returned'.call = "mark_payment"
        /\ \A i \in 1..Len(transactions_file) :
             transactions_file[i].transaction_id # returned'.transaction_id) =>
       /\ returned'.b = FALSE
       /\ transactions_file' = transactions_file
       /\ performance_file' = performance_file]_vars

\* C29: after any sequence of add_transaction and mark_payment calls the
\* cached performance entry of each vendor touched by a call equals
\* get_vendor_performance computed from the transactions now stored for
\* that vendor; mark_payment on an unknown transaction id returns False and
\* changes neither the transactions nor the cache.
C29_CacheMatchesTransactions ==
  /\ [](\A vendor_name \in StoredVendors :
          /\ vendor_name \in DOMAIN performance_file
          /\ performance_file[vendor_name] =
               VendorPerformance(transactions_file, vendor_name))
  /\ C29_UnknownIdChangesNothing

====
